---- MODULE Spec2Model ----
(***************************************************************************)
(* Radiant: the observation log (ObservationService) and the statistics    *)
(* it derives from it.                                                     *)
(*                                                                         *)
(* Time is counted in ticks, TicksPerDay ticks to a day; tick 0 is         *)
(* 2025-01-01T00:00:00Z.  A calendar date "YYYY-MM-DD" is its day number   *)
(* (2025-01-01 is day 0); new Date("YYYY-MM-DD") is UTC midnight of that   *)
(* day, the instant date * TicksPerDay.  Clock times "HH:MM" are minutes   *)
(* after midnight, durations are minutes (the code divides by 3 600 000 to *)
(* get hours; the model keeps the numerator).  A sum of hours is a double: *)
(* it is kept as the minutes it would be without rounding and the ulps by  *)
(* which the additions moved it off the double nearest to that.  A mean is *)
(* kept as the fraction [num, den] the code divides.                       *)
(***************************************************************************)
EXTENDS Integers, Sequences, FiniteSets, TLC

VARIABLES
    obsItem,    \* AsyncStorage item 'user_observations': [has, val (the text)]
    statsItem,  \* AsyncStorage item 'observation_stats': [has, val (the text)]
    now,        \* the wall clock, in ticks
    tz,         \* the device's offset from UTC, in hours
    last,       \* the last call of the service that completed, and how
    given,      \* the list handed to calculateStats, as it was handed over
    input,      \* the same array object (calculateStats sorts it in place)
    result,     \* what calculateStats returned: [has, val]
    again,      \* what a second call on the same array returned: [has, val]
    screen,     \* the log screen's state: [observations, stats]
    firstSaved, \* for each id, the createdAt its record was first saved with
    calls,      \* the calls of the service in flight: where each stands
    prefs,      \* the AsyncStorage items of StorageService, by key
    scheduled,  \* the notifications scheduled with the operating system
    sky,        \* a call of AstronomyService: its arguments and its result
    pc          \* which operation runs next

vars ==
    <<obsItem, statsItem, now, tz, last, given, input, result, again, screen,
      firstSaved, calls, prefs, scheduled, sky, pc>>

----------------------------------------------------------------------------
(* Bounds of the model *)

\* the store's clock stops after this many ticks
MaxTime == 1
\* the most AsyncStorage calls that raise an error within one service call
MaxFailures == 1
\* the longest list handed to calculateStats
MaxLen == 3
\* resolution of the clock
TicksPerDay == 2
\* the most calls of the service in flight at once
MaxCalls == 2

(* Program constants *)

\* if (diffDays <= 7)
StreakGapDays == 7
\* if (daysSinceLastObs <= 7)
CurrentStreakDays == 7

----------------------------------------------------------------------------
(* Values *)

Range(s) == { s[i] : i \in DOMAIN s }

\* generateObservationId() results
ObsIds == { "obs_1", "obs_2" }

Observation(id, showerId, date, startTime, endTime, meteorsCount, rating, createdAt, updatedAt) ==
    [ id |-> id, showerId |-> showerId, date |-> date,
      startTime |-> startTime, endTime |-> endTime,
      meteorsCount |-> meteorsCount, rating |-> rating,
      createdAt |-> createdAt, updatedAt |-> updatedAt ]

\* the month and year toLocaleDateString('en-US', {year, month}) prints for a
\* local calendar day (days -31 .. 89)
MonthName(day) ==
    CASE day < 0   -> "December 2024"
      [] day <= 30 -> "January 2025"
      [] day <= 58 -> "February 2025"
      [] OTHER     -> "March 2025"

\* new Date("YYYY-MM-DD") is UTC midnight; west of Greenwich that instant
\* still belongs to the previous local day
MonthLabel(date, offset) == MonthName(IF offset < 0 THEN date - 1 ELSE date)

----------------------------------------------------------------------------
(* calculateStats and its parts *)

Max(a, b) == IF a >= b THEN a ELSE b

\* new Date(obs.date).getTime()
DateInstant(date) == date * TicksPerDay

\* the double that is minutes / 60 hours, ulps off the nearest double
Double(minutes, ulps) == [minutes |-> minutes, ulps |-> ulps]

\* getEmptyStats()
getEmptyStats ==
    [ totalObservations |-> 0,
      totalMeteors      |-> 0,
      totalHours        |-> Double(0, 0),
      averageRating     |-> [num |-> 0, den |-> 1],
      favoriteShower    |-> "",
      longestSession    |-> 0,
      currentStreak     |-> 0,
      longestStreak     |-> 0,
      monthlyStats      |-> << >>,
      showerStats       |-> << >> ]

\* observations.reduce((sum, obs) => sum + obs.observations.meteorsCount, 0)
RECURSIVE SumMeteors(_)
SumMeteors(obs) ==
    IF obs = << >> THEN 0 ELSE Head(obs).meteorsCount + SumMeteors(Tail(obs))

\* end.getTime() - start.getTime(), both on the day obs.date
SessionDuration(o) == o.endTime - o.startTime

\* the ulps by which sum + duration / 60, rounded to a double, lies off the
\* double nearest to (sum.minutes + duration) / 60: IEEE 754 addition worked
\* out for sessions of 6, 12 and 18 minutes, up to five of them; sums of
\* whole hours are exact
RoundingUlps ==
    (<<6, 0, 12>> :> 1)   @@ (<<12, 0, 6>> :> 1)    @@ (<<18, 1, 18>> :> 1)
 @@ (<<24, 0, 12>> :> 1)  @@ (<<36, 0, 18>> :> -1)  @@ (<<36, 1, 6>> :> 1)
 @@ (<<36, 1, 18>> :> 1)  @@ (<<42, 0, 6>> :> -1)   @@ (<<42, 0, 12>> :> -1)
 @@ (<<42, 1, 12>> :> 1)  @@ (<<48, -1, 6>> :> -1)  @@ (<<48, -1, 18>> :> -1)
 @@ (<<54, -1, 6>> :> -1) @@ (<<54, -1, 12>> :> -1) @@ (<<54, 1, 6>> :> 1)
 @@ (<<54, 1, 18>> :> 1)  @@ (<<60, -1, 6>> :> -1)  @@ (<<60, -1, 18>> :> -1)
 @@ (<<66, -1, 12>> :> -1) @@ (<<66, 0, 6>> :> 1)   @@ (<<66, 0, 18>> :> 1)

\* sum + duration / (1000 * 60 * 60), in doubles
FloatAdd(sum, duration) ==
    LET terms == <<sum.minutes, sum.ulps, duration>>
    IN  Double(sum.minutes + duration,
               IF terms \in DOMAIN RoundingUlps THEN RoundingUlps[terms] ELSE 0)

\* observations.reduce((sum, obs) => sum + duration(obs), 0)
RECURSIVE SumDurations(_)
SumDurations(obs) ==
    IF obs = << >> THEN Double(0, 0)
    ELSE FloatAdd(SumDurations(SubSeq(obs, 1, Len(obs) - 1)),
                  SessionDuration(obs[Len(obs)]))

RECURSIVE SumRatings(_)
SumRatings(obs) ==
    IF obs = << >> THEN 0 ELSE Head(obs).rating + SumRatings(Tail(obs))

\* Math.max(...observations.map(duration)), of a non-empty list
RECURSIVE MaxDuration(_)
MaxDuration(obs) ==
    IF Len(obs) = 1 THEN SessionDuration(obs[1])
    ELSE Max(SessionDuration(Head(obs)), MaxDuration(Tail(obs)))

MonthlyStats_OnePerMonth(obs, offset) ==
    [ month \in { MonthLabel(obs[i].date, offset) : i \in DOMAIN obs } |-> 1 ]

\* monthlyStats[month] = (monthlyStats[month] || 0) + 1, for each observation
RECURSIVE MonthlyStats(_, _)
MonthlyStats(obs, offset) ==
    IF obs = << >> THEN << >>
    ELSE LET rest  == MonthlyStats(SubSeq(obs, 1, Len(obs) - 1), offset)
             month == MonthLabel(obs[Len(obs)].date, offset)
         IN  IF month \in DOMAIN rest
             THEN [rest EXCEPT ![month] = @ + 1]
             ELSE rest @@ (month :> 1)

BetterSession_LastWinsTies(o, best) ==
    \/ o.meteorsCount > best.meteors
    \/ o.meteorsCount = best.meteors /\ o.rating >= best.rating

\* obs.observations.meteorsCount > stats.bestSession.meteors ||
\* (obs.observations.meteorsCount === stats.bestSession.meteors &&
\*  obs.rating > stats.bestSession.rating)
BetterSession(o, best) ==
    \/ o.meteorsCount > best.meteors
    \/ o.meteorsCount = best.meteors /\ o.rating > best.rating

Session(o) == [date |-> o.date, meteors |-> o.meteorsCount, rating |-> o.rating]

\* the forEach that fills showerStats, in the order of the list
RECURSIVE ShowerStatsScan(_)
ShowerStatsScan(obs) ==
    IF obs = << >> THEN << >>
    ELSE LET o     == obs[Len(obs)]
             prev  == ShowerStatsScan(SubSeq(obs, 1, Len(obs) - 1))
             begun == IF o.showerId \in DOMAIN prev THEN prev
                      ELSE prev @@ (o.showerId :>
                               [ observations  |-> 0,
                                 totalMeteors  |-> 0,
                                 averageRating |-> [num |-> 0, den |-> 1],
                                 bestSession   |-> Session(o) ])
             stats == begun[o.showerId]
         IN  [begun EXCEPT ![o.showerId] =
                 [ observations  |-> stats.observations + 1,
                   totalMeteors  |-> stats.totalMeteors + o.meteorsCount,
                   averageRating |-> stats.averageRating,
                   bestSession   |-> IF BetterSession(o, stats.bestSession)
                                     THEN Session(o) ELSE stats.bestSession ]]

FilterShower_All(obs, showerId) == obs

\* observations.filter(obs => obs.showerId === showerId)
RECURSIVE FilterShower(_, _)
FilterShower(obs, showerId) ==
    IF obs = << >> THEN << >>
    ELSE (IF Head(obs).showerId = showerId THEN << Head(obs) >> ELSE << >>)
             \o FilterShower(Tail(obs), showerId)

\* showerStats with every shower's averageRating filled in
ShowerStats(obs) ==
    LET scanned == ShowerStatsScan(obs)
    IN  [ showerId \in DOMAIN scanned |->
            LET showerObs == FilterShower(obs, showerId)
            IN  [scanned[showerId] EXCEPT
                    !.averageRating = [num |-> SumRatings(showerObs),
                                       den |-> Len(showerObs)]] ]

\* Object.keys(showerStats): the showerIds in the order their entries were
\* created (none of the ids is an array index)
RECURSIVE ShowerKeys(_)
ShowerKeys(obs) ==
    IF obs = << >> THEN << >>
    ELSE LET prev == ShowerKeys(SubSeq(obs, 1, Len(obs) - 1))
             id   == obs[Len(obs)].showerId
         IN  IF id \in Range(prev) THEN prev ELSE Append(prev, id)

\* Object.keys(showerStats).reduce((fav, showerId) =>
\*   showerStats[showerId].observations > (showerStats[fav]?.observations || 0)
\*     ? showerId : fav, '')
RECURSIVE FavoriteReduce(_, _, _)
FavoriteReduce(keys, fav, showerStats) ==
    IF keys = << >> THEN fav
    ELSE LET showerId == Head(keys)
             favCount == IF fav \in DOMAIN showerStats
                         THEN showerStats[fav].observations ELSE 0
         IN  FavoriteReduce(Tail(keys),
                            IF showerStats[showerId].observations > favCount
                            THEN showerId ELSE fav,
                            showerStats)

FavoriteShower(obs) == FavoriteReduce(ShowerKeys(obs), "", ShowerStats(obs))

\* the comparator of the sort, (a, b) => a.date - b.date: a stays before b
RECURSIVE InsertByDate(_, _)
InsertByDate(sorted, o) ==
    IF sorted = << >> THEN << o >>
    ELSE IF DateInstant(Head(sorted).date) - DateInstant(o.date) <= 0
         THEN << Head(sorted) >> \o InsertByDate(Tail(sorted), o)
         ELSE << o >> \o sorted

SortByDate_Unsorted(obs) == obs

\* observations.sort(...): stable, and in place
RECURSIVE SortByDate(_)
SortByDate(obs) ==
    IF obs = << >> THEN << >>
    ELSE InsertByDate(SortByDate(SubSeq(obs, 1, Len(obs) - 1)), obs[Len(obs)])

ContinuesStreak_Strict(diff) == diff < StreakGapDays * TicksPerDay

\* diffDays <= 7, diffDays = diff / (1000 * 60 * 60 * 24)
ContinuesStreak(diff) == diff <= StreakGapDays * TicksPerDay

StreakIsCurrent_Strict(sinceLastObs) == sinceLastObs < CurrentStreakDays * TicksPerDay

\* daysSinceLastObs <= 7
StreakIsCurrent(sinceLastObs) == sinceLastObs <= CurrentStreakDays * TicksPerDay

\* the for loop of calculateStreaks from index i on
RECURSIVE StreakLoop(_, _, _, _)
StreakLoop(sorted, i, longestStreak, tempStreak) ==
    IF i > Len(sorted)
    THEN [longestStreak |-> longestStreak, tempStreak |-> tempStreak]
    ELSE LET diff == DateInstant(sorted[i].date) - DateInstant(sorted[i - 1].date)
         IN  IF ContinuesStreak(diff)
             THEN StreakLoop(sorted, i + 1, longestStreak, tempStreak + 1)
             ELSE StreakLoop(sorted, i + 1, Max(longestStreak, tempStreak), 1)

calculateStreaks_ForgetsLastRun(sortedObservations, today) ==
    IF Len(sortedObservations) = 0
    THEN [currentStreak |-> 0, longestStreak |-> 0]
    ELSE LET loop == StreakLoop(sortedObservations, 2, 1, 1)
             lastObsDate ==
                 DateInstant(sortedObservations[Len(sortedObservations)].date)
         IN  [ currentStreak |-> IF StreakIsCurrent(today - lastObsDate)
                                 THEN loop.tempStreak ELSE 0,
               longestStreak |-> loop.longestStreak ]

\* calculateStreaks(sortedObservations) at the time today
calculateStreaks(sortedObservations, today) ==
    IF Len(sortedObservations) = 0
    THEN [currentStreak |-> 0, longestStreak |-> 0]
    ELSE LET loop == StreakLoop(sortedObservations, 2, 1, 1)
             lastObsDate ==
                 DateInstant(sortedObservations[Len(sortedObservations)].date)
         IN  [ currentStreak |-> IF StreakIsCurrent(today - lastObsDate)
                                 THEN loop.tempStreak ELSE 0,
               longestStreak |-> Max(loop.longestStreak, loop.tempStreak) ]

\* what calculateStats returns for the list, at the time today, on a device
\* at the given offset from UTC
calculateStats(obs, today, offset) ==
    IF Len(obs) = 0 THEN getEmptyStats
    ELSE LET streaks == calculateStreaks(SortByDate(obs), today)
         IN  [ totalObservations |-> Len(obs),
               totalMeteors      |-> SumMeteors(obs),
               totalHours        |-> SumDurations(obs),
               averageRating     |-> [num |-> SumRatings(obs), den |-> Len(obs)],
               favoriteShower    |-> FavoriteShower(obs),
               longestSession    |-> MaxDuration(obs),
               currentStreak     |-> streaks.currentStreak,
               longestStreak     |-> streaks.longestStreak,
               monthlyStats      |-> MonthlyStats(obs, offset),
               showerStats       |-> ShowerStats(obs) ]

\* the array handed to calculateStats after the call: sorted, unless empty
ArrayAfterStats(obs) == IF Len(obs) = 0 THEN obs ELSE SortByDate(obs)

----------------------------------------------------------------------------
(* The store, as getObservations and getStats read it *)

\* an item: whether it is there, its text, and whether JSON.parse accepts
\* the text
NoItem(val) == [has |-> FALSE, val |-> val, parses |-> TRUE]
Item(val)   == [has |-> TRUE, val |-> val, parses |-> TRUE]

\* an item whose text is not JSON
Unparsable  == [has |-> TRUE, val |-> << >>, parses |-> FALSE]

\* JSON.stringify of an object: its fields as name and value, in the order
\* of the fields
RECURSIVE StringifyObject(_, _)
StringifyObject(object, fields) ==
    IF fields = << >> THEN << >>
    ELSE << << Head(fields), object[Head(fields)] >> >>
             \o StringifyObject(object, Tail(fields))

\* the value the text of an object gives for a field
RECURSIVE FieldFrom(_, _, _)
FieldFrom(text, name, i) ==
    IF text[i][1] = name THEN text[i][2] ELSE FieldFrom(text, name, i + 1)

Field(text, name) == FieldFrom(text, name, 1)

ObservationFields ==
    << "id", "showerId", "date", "startTime", "endTime", "meteorsCount",
       "rating", "createdAt", "updatedAt" >>

StatsFields ==
    << "totalObservations", "totalMeteors", "totalHours", "averageRating",
       "favoriteShower", "longestSession", "currentStreak", "longestStreak",
       "monthlyStats", "showerStats" >>

\* JSON.stringify(observations) and JSON.parse of it
RECURSIVE StringifyObservations(_)
StringifyObservations(observations) ==
    IF observations = << >> THEN << >>
    ELSE << StringifyObject(Head(observations), ObservationFields) >>
             \o StringifyObservations(Tail(observations))

ParseObservation(text) ==
    Observation(Field(text, "id"), Field(text, "showerId"), Field(text, "date"),
                Field(text, "startTime"), Field(text, "endTime"),
                Field(text, "meteorsCount"), Field(text, "rating"),
                Field(text, "createdAt"), Field(text, "updatedAt"))

RECURSIVE ParseObservations(_)
ParseObservations(text) ==
    IF text = << >> THEN << >>
    ELSE << ParseObservation(Head(text)) >> \o ParseObservations(Tail(text))

\* JSON.stringify(stats) and JSON.parse of it
StringifyStats(stats) == StringifyObject(stats, StatsFields)

ParseStats(text) ==
    [ totalObservations |-> Field(text, "totalObservations"),
      totalMeteors      |-> Field(text, "totalMeteors"),
      totalHours        |-> Field(text, "totalHours"),
      averageRating     |-> Field(text, "averageRating"),
      favoriteShower    |-> Field(text, "favoriteShower"),
      longestSession    |-> Field(text, "longestSession"),
      currentStreak     |-> Field(text, "currentStreak"),
      longestStreak     |-> Field(text, "longestStreak"),
      monthlyStats      |-> Field(text, "monthlyStats"),
      showerStats       |-> Field(text, "showerStats") ]

NoObservation == Observation("", "", 0, 0, 0, 0, 0, 0, 0)

\* which of the AsyncStorage calls of one service call raise an error; the
\* calls after a failed write of the list are never made
Failures ==
    { f \in [ listRead : BOOLEAN, listWrite : BOOLEAN,
              statsRead : BOOLEAN, statsWrite : BOOLEAN ] :
        /\ f.listWrite => ~f.statsRead /\ ~f.statsWrite
        /\ Cardinality({ call \in DOMAIN f : f[call] }) <= MaxFailures }

NoFailure ==
    [ listRead |-> FALSE, listWrite |-> FALSE,
      statsRead |-> FALSE, statsWrite |-> FALSE ]

\* useState<Observation[]>([]) and useState<ObservationStats | null>(null)
NoScreen == [observations |-> << >>, stats |-> NoItem(<< >>)]

NeverSaved == [id \in ObsIds |-> -1]

\* a call that has not been made
NotStarted ==
    [ op |-> "none", id |-> "", obs |-> NoObservation, at |-> "idle",
      observations |-> << >> ]

NoCalls == [c \in 1..MaxCalls |-> NotStarted]

NoCall ==
    [ op |-> "none", id |-> "", obs |-> NoObservation,
      before |-> NoItem(<< >>), threw |-> FALSE, listError |-> FALSE ]

\* getObservations(): the stored list, [] when there is none or when getItem
\* or JSON.parse throws
getObservations(item, readFails) ==
    IF readFails \/ ~item.has \/ ~item.parses THEN << >>
    ELSE ParseObservations(item.val)

getStats_IgnoresReadError(item, readFails) ==
    IF ~item.has \/ ~item.parses THEN getEmptyStats ELSE ParseStats(item.val)

\* getStats(): the stored stats, the empty stats when there are none or when
\* getItem or JSON.parse throws
getStats(item, readFails) ==
    IF readFails \/ ~item.has \/ ~item.parses THEN getEmptyStats
    ELSE ParseStats(item.val)

\* AsyncStorage.setItem(key, text): the item afterwards
setItem(item, text, writeFails) == IF writeFails THEN item ELSE Item(text)

\* observations.findIndex(obs => obs.id === id), 0 for -1
RECURSIVE FindIndexFrom(_, _, _)
FindIndexFrom(observations, id, i) ==
    IF i > Len(observations) THEN 0
    ELSE IF observations[i].id = id THEN i
    ELSE FindIndexFrom(observations, id, i + 1)

findIndex(observations, id) == FindIndexFrom(observations, id, 1)

Upsert_AlwaysPush(observations, observation, time) ==
    Append(observations, observation)

\* the list saveObservation writes: the record replaced, with updatedAt
\* refreshed, or pushed as it came
Upsert(observations, observation, time) ==
    LET existingIndex == findIndex(observations, observation.id)
    IN  IF existingIndex > 0
        THEN [observations EXCEPT
                 ![existingIndex] = [observation EXCEPT !.updatedAt = time]]
        ELSE Append(observations, observation)

\* observations.filter(obs => obs.id !== observationId)
RECURSIVE FilterOutId(_, _)
FilterOutId(observations, observationId) ==
    IF observations = << >> THEN << >>
    ELSE (IF Head(observations).id # observationId
          THEN << Head(observations) >> ELSE << >>)
             \o FilterOutId(Tail(observations), observationId)

\* updateStats(): the stats item afterwards; its errors are logged, not thrown
updateStats(listItem, oldStats, time, offset, f) ==
    LET observations == getObservations(listItem, f.statsRead)
        stats        == calculateStats(observations, time, offset)
    IN  setItem(oldStats, StringifyStats(stats), f.statsWrite)

----------------------------------------------------------------------------
(* StorageService's items, the catalog and NotificationService *)

\* STORAGE_KEYS
STORAGE_KEYS ==
    { "@radiant_user_location", "@radiant_notification_settings",
      "@radiant_onboarding_completed", "@radiant_favorite_showers",
      "@radiant_user_engagement", "@radiant_theme_preference" }

\* no item under any key of StorageService
NoPrefs == [key \in STORAGE_KEYS |-> NoItem(<< >>)]

\* no call of AstronomyService made
NoSky == [fn |-> "none"]

\* one entry of the catalog: its dates as day numbers, the peak time in
\* minutes after midnight
MeteorShower(id, start, end, peakDate, peakTime, zhr, hemisphere, moonPhaseImpact) ==
    [ id |-> id, start |-> start, end |-> end, peakDate |-> peakDate,
      peakTime |-> peakTime, zhr |-> zhr, hemisphere |-> hemisphere,
      moonPhaseImpact |-> moonPhaseImpact ]

METEOR_SHOWERS_2025 ==
    << MeteorShower("quadrantids", 0, 4, 2, 14 * 60 + 30, 80,
                    "northern", "medium"),
       MeteorShower("lyrids", 105, 119, 111, 9 * 60, 18, "both", "low"),
       MeteorShower("perseids", 197, 235, 223, 21 * 60, 60,
                    "northern", "low"),
       MeteorShower("orionids", 274, 310, 293, 2 * 60, 25, "both", "medium"),
       MeteorShower("leonids", 309, 333, 320, 5 * 60, 15, "both", "high"),
       MeteorShower("geminids", 337, 353, 347, 1 * 60, 120, "both", "low"),
       MeteorShower("ursids", 350, 359, 355, 8 * 60, 10,
                    "northern", "medium") >>

\* METEOR_SHOWERS_2025.find((shower) => shower.id === id)
getMeteorShowerById(id) ==
    CHOOSE shower \in Range(METEOR_SHOWERS_2025) : shower.id = id

NotificationSettings(enabled, peakReminder, daysBefore, hoursBeforePeak, minimumZHR) ==
    [ enabled |-> enabled, peakReminder |-> peakReminder,
      daysBefore |-> daysBefore, hoursBeforePeak |-> hoursBeforePeak,
      showMagnitudeFilter |-> FALSE, minimumZHR |-> minimumZHR ]

\* an instant of the clock in minutes since 2025-01-01T00:00Z
Minutes(ticks) == ticks * ((24 * 60) \div TicksPerDay)

\* new Date(shower.peak.date): midnight UTC of the peak date, in minutes
PeakDate(shower) == shower.peakDate * 24 * 60

\* new Date(peakDate) with setHours(hours, minutes, 0, 0): the peak time on
\* the local calendar day that holds midnight UTC of the peak date
PeakTimeNotification(shower, offset) ==
    LET localDay == IF offset < 0 THEN shower.peakDate - 1
                    ELSE shower.peakDate
    IN  localDay * 24 * 60 + shower.peakTime - offset * 60

PassesFilter_Above(shower, settings) == shower.zhr > settings.minimumZHR

\* shower.zhr >= settings.minimumZHR
PassesFilter(shower, settings) == shower.zhr >= settings.minimumZHR

\* a request handed to scheduleNotificationAsync: content.data and the
\* trigger date in minutes; settings and call tell which call made it
Notification(shower, type, trigger, settings, c) ==
    [ showerId |-> shower.id, type |-> type, trigger |-> trigger,
      settings |-> settings, call |-> c ]

\* scheduleShowerReminders(shower, settings) at the instant time: the
\* notifications it schedules
scheduleShowerReminders(shower, settings, time, offset, c) ==
    LET peakDate     == PeakDate(shower)
        reminderDate == peakDate - settings.daysBefore * 24 * 60
        peakReminder == peakDate - settings.hoursBeforePeak * 60
        peakTime     == PeakTimeNotification(shower, offset)
    IN  IF peakDate <= time THEN {}
        ELSE (IF /\ settings.peakReminder
                 /\ settings.daysBefore > 0
                 /\ reminderDate > time
              THEN { Notification(shower, "advance_reminder", reminderDate,
                                  settings, c) }
              ELSE {})
             \cup
             (IF settings.hoursBeforePeak > 0 /\ peakReminder > time
              THEN { Notification(shower, "peak_reminder", peakReminder,
                                  settings, c) }
              ELSE {})
             \cup
             (IF peakTime > time
              THEN { Notification(shower, "peak_now", peakTime, settings, c) }
              ELSE {})

\* the next turn of the loop over the catalog, from index i on, that
\* schedules anything or could; 0 when the loop has run out
RECURSIVE NextShower(_, _, _)
NextShower(i, settings, time) ==
    IF i > Len(METEOR_SHOWERS_2025) THEN 0
    ELSE IF /\ PassesFilter(METEOR_SHOWERS_2025[i], settings)
            /\ PeakDate(METEOR_SHOWERS_2025[i]) > time
         THEN i
    ELSE NextShower(i + 1, settings, time)

----------------------------------------------------------------------------
(* StorageService *)

\* the keys ObservationService keeps its items under
OBSERVATIONS_KEY == "user_observations"
STATS_KEY        == "observation_stats"

\* a getter has a text to parse: getItem did not throw, gave a text, and
\* JSON.parse takes it
Readable(item, readFails) == ~readFails /\ item.has /\ item.parses

\* which of the AsyncStorage calls of one StorageService call raise an error
PrefFailures ==
    { f \in [read : BOOLEAN, write : BOOLEAN] :
        Cardinality({ call \in DOMAIN f : f[call] }) <= MaxFailures }

NoPrefFailure == [read |-> FALSE, write |-> FALSE]

UserLocation(latitude, longitude) ==
    [latitude |-> latitude, longitude |-> longitude]

LocationFields == << "latitude", "longitude" >>

\* getUserLocation(): the stored location, null (no value) otherwise
getUserLocation(item, readFails) ==
    IF Readable(item, readFails)
    THEN Item(UserLocation(Field(item.val, "latitude"),
                           Field(item.val, "longitude")))
    ELSE NoItem(<< >>)

SettingsFields ==
    << "enabled", "peakReminder", "daysBefore", "hoursBeforePeak",
       "showMagnitudeFilter", "minimumZHR" >>

DefaultSettings == NotificationSettings(TRUE, TRUE, 2, 6, 15)

\* getNotificationSettings(): the stored settings, the defaults otherwise
getNotificationSettings(item, readFails) ==
    IF Readable(item, readFails)
    THEN [ enabled             |-> Field(item.val, "enabled"),
           peakReminder        |-> Field(item.val, "peakReminder"),
           daysBefore          |-> Field(item.val, "daysBefore"),
           hoursBeforePeak     |-> Field(item.val, "hoursBeforePeak"),
           showMagnitudeFilter |-> Field(item.val, "showMagnitudeFilter"),
           minimumZHR          |-> Field(item.val, "minimumZHR") ]
    ELSE DefaultSettings

\* completed.toString()
BooleanText(completed) == IF completed THEN "true" ELSE "false"

\* isOnboardingCompleted(): value === "true"
isOnboardingCompleted(item, readFails) ==
    ~readFails /\ item.has /\ item.val = "true"

\* getFavoriteShowers(): the stored array of ids, [] otherwise; the JSON
\* text of an array of strings is taken to be the ids in their order
getFavoriteShowers(item, readFails) ==
    IF Readable(item, readFails) THEN item.val ELSE << >>

\* favorites.includes(showerId)
Includes(ids, showerId) == \E i \in DOMAIN ids : ids[i] = showerId

\* favorites.filter((id) => id !== showerId)
RECURSIVE Without(_, _)
Without(ids, showerId) ==
    IF ids = << >> THEN << >>
    ELSE (IF Head(ids) # showerId THEN << Head(ids) >> ELSE << >>)
             \o Without(Tail(ids), showerId)

\* addFavoriteShower(showerId): the item afterwards
addFavoriteShower(item, showerId, f) ==
    LET favorites == getFavoriteShowers(item, f.read)
    IN  IF ~Includes(favorites, showerId)
        THEN setItem(item, Append(favorites, showerId), f.write)
        ELSE item

\* removeFavoriteShower(showerId): the item afterwards
removeFavoriteShower(item, showerId, f) ==
    LET favorites == getFavoriteShowers(item, f.read)
    IN  setItem(item, Without(favorites, showerId), f.write)

\* isFavoriteShower(showerId)
isFavoriteShower(item, showerId, readFails) ==
    Includes(getFavoriteShowers(item, readFails), showerId)

EngagementFields ==
    << "appOpens", "notificationInteractions", "showersViewed",
       "lastActiveDate", "totalTimeSpent", "favoriteShowers",
       "surveyCompleted", "researchParticipation" >>

\* the default engagement data, lastActiveDate being new Date()
DefaultEngagement(time) ==
    [ appOpens |-> 0, notificationInteractions |-> 0,
      showersViewed |-> << >>, lastActiveDate |-> time,
      totalTimeSpent |-> 0, favoriteShowers |-> << >>,
      surveyCompleted |-> FALSE, researchParticipation |-> FALSE ]

\* getUserEngagement(): the stored record, the default one otherwise
getUserEngagement(item, readFails, time) ==
    IF Readable(item, readFails)
    THEN [ field \in DOMAIN DefaultEngagement(time) |->
             Field(item.val, field) ]
    ELSE DefaultEngagement(time)

\* { ...currentEngagement, ...updates }
Spread(currentEngagement, updates) ==
    [ field \in DOMAIN currentEngagement |->
        IF field \in DOMAIN updates THEN updates[field]
        ELSE currentEngagement[field] ]

\* the updates recordAppOpen, recordShowerViewed and
\* recordNotificationInteraction hand to updateUserEngagement
AppOpenUpdates(engagement, time) ==
    [appOpens |-> engagement.appOpens + 1, lastActiveDate |-> time]

ShowerViewedUpdates(engagement, showerId) ==
    [ showersViewed |->
        IF ~Includes(engagement.showersViewed, showerId)
        THEN Append(engagement.showersViewed, showerId)
        ELSE engagement.showersViewed ]

NotificationInteractionUpdates(engagement) ==
    [notificationInteractions |-> engagement.notificationInteractions + 1]

\* updateUserEngagement(updates): the item afterwards
updateUserEngagement(item, updates, time, f) ==
    LET currentEngagement == getUserEngagement(item, f.read, time)
        updatedEngagement == Spread(currentEngagement, updates)
    IN  setItem(item, StringifyObject(updatedEngagement, EngagementFields),
                f.write)

\* getThemePreference(): theme || "auto"
getThemePreference(item, readFails) ==
    IF ~readFails /\ item.has THEN item.val ELSE "auto"

\* AsyncStorage.multiRemove(keys): the item under key afterwards
multiRemove(key, item, keys, fails) ==
    IF ~fails /\ key \in keys THEN NoItem(<< >>) ELSE item

----------------------------------------------------------------------------
(* AstronomyService *)

isShowerVisible_NotFromEquator(shower, latitude) ==
    IF shower.hemisphere = "northern" /\ latitude <= 0 THEN FALSE
    ELSE IF shower.hemisphere = "southern" /\ latitude >= 0 THEN FALSE
    ELSE TRUE

\* isShowerVisible(shower, location), the latitude in tenths of a degree
isShowerVisible(shower, latitude) ==
    IF shower.hemisphere = "northern" /\ latitude < 0 THEN FALSE
    ELSE IF shower.hemisphere = "southern" /\ latitude > 0 THEN FALSE
    ELSE TRUE

LightPollutionImpact_LowFrom60(latitude) ==
    LET absLat == IF latitude < 0 THEN -latitude ELSE latitude
    IN  IF absLat >= 600 THEN "low"
        ELSE IF absLat < 300 THEN "high"
        ELSE "medium"

\* calculateViewingConditions: lightPollutionImpact from
\* Math.abs(location.latitude)
LightPollutionImpact(latitude) ==
    LET absLat == IF latitude < 0 THEN -latitude ELSE latitude
    IN  IF absLat > 600 THEN "low"
        ELSE IF absLat < 300 THEN "high"
        ELSE "medium"

\* calculateViewingConditions: 1 - (moonIllumination / 100) * 0.8, 0.5 or
\* 0.2, in thousandths
MoonFactor(shower, moonIllumination) ==
    IF shower.moonPhaseImpact = "high" THEN 1000 - moonIllumination * 8
    ELSE IF shower.moonPhaseImpact = "medium"
         THEN 1000 - moonIllumination * 5
    ELSE 1000 - moonIllumination * 2

\* calculateViewingConditions(shower, location, date) for a date of the
\* given moon illumination: the visibility in ten-thousandths, exactly,
\* where the code has the double next to it; moonPhase and
\* optimalViewingHours are left out
calculateViewingConditions(shower, latitude, moonIllumination) ==
    LET lightPollutionImpact == LightPollutionImpact(latitude)
        visibility ==
            MoonFactor(shower, moonIllumination)
              * (IF lightPollutionImpact = "high" THEN 6
                 ELSE IF lightPollutionImpact = "medium" THEN 8
                 ELSE 10)
    IN  [ visibility           |-> Max(0, visibility),
          moonIllumination     |-> moonIllumination,
          lightPollutionImpact |-> lightPollutionImpact ]

----------------------------------------------------------------------------
(* calculateStats applied to lists drawn from bounded sets *)

\* 2025-01-01, 2025-01-05, 2025-01-12, 2025-01-20
StreakDates == { 0, 4, 11, 19 }

\* evaluation times: on the last of these days, exactly 7 days after it, one
\* tick later, and one tick more than 7 days after 2025-01-12
StreakTimes ==
    { DateInstant(19), DateInstant(19 + 7), DateInstant(19 + 7) + 1,
      DateInstant(11 + 7) + 1 }

\* sessions that differ in nothing but the date
StreakObservations ==
    { Observation("obs_1", "perseids", d, 1260, 1380, 10, 3, 0, 0) : d \in StreakDates }

\* sessions that differ in meteor count, rating and date, of a shower of the
\* catalog and of the showerId "" the form starts with
ShowerObservations ==
    { Observation("obs_1", s, d, 1260, 1380, m, r, 0, 0) :
        s \in { "", "perseids" }, d \in { 0, 4 }, m \in { 10, 25 }, r \in { 3, 5 } }

\* sessions that differ in nothing but the shower: two of the catalog and ""
FavoriteObservations ==
    { Observation("obs_1", s, 0, 1260, 1380, 10, 3, 0, 0) :
        s \in { "", "perseids", "geminids" } }

\* sessions of 6, 12 and 18 minutes and one from 23:00 to 01:00, told apart
\* by their meteor counts
DurationObservations ==
    { Observation("obs_1", "perseids", 0, 1260, 1266, 1, 3, 0, 0),
      Observation("obs_1", "perseids", 0, 1260, 1272, 2, 3, 0, 0),
      Observation("obs_1", "perseids", 0, 1260, 1278, 3, 3, 0, 0),
      Observation("obs_1", "perseids", 0, 1380, 60, 4, 3, 0, 0) }

\* 2025-01-01, 2025-01-31, 2025-02-01
MonthDates == { 0, 30, 31 }

\* sessions that differ in nothing but the date
MonthObservations ==
    { Observation("obs_1", "perseids", d, 1260, 1380, 10, 3, 0, 0) : d \in MonthDates }

\* the device's offset from UTC: New York in winter, Greenwich, Helsinki
TimeZones == { -5, 0, 2 }

ListsOf(S) == UNION { [1..n -> S] : n \in 0..MaxLen }

InitStats ==
    /\ \/ given \in ListsOf(StreakObservations) /\ now \in StreakTimes /\ tz = 0
       \/ given \in ListsOf(ShowerObservations) /\ now = DateInstant(4) /\ tz = 0
       \/ given \in ListsOf(FavoriteObservations) /\ now = DateInstant(4) /\ tz = 0
       \/ given \in ListsOf(DurationObservations) /\ now = DateInstant(4) /\ tz = 0
       \/ given \in ListsOf(MonthObservations) /\ now = DateInstant(31) /\ tz \in TimeZones
    /\ input = given
    /\ result = NoItem(<< >>)
    /\ again = NoItem(<< >>)
    /\ screen = NoScreen
    /\ firstSaved = NeverSaved
    /\ calls = NoCalls
    /\ prefs = NoPrefs
    /\ scheduled = {}
    /\ sky = NoSky
    /\ pc = "call"
    /\ obsItem = NoItem(<< >>)
    /\ statsItem = NoItem(<< >>)
    /\ last = NoCall

\* const stats = this.calculateStats(observations)
CalculateStats ==
    /\ pc = "call"
    /\ result' = Item(calculateStats(input, now, tz))
    /\ input' = ArrayAfterStats(input)
    /\ pc' = "returned"
    /\ UNCHANGED <<obsItem, statsItem, now, tz, last, given, again,
                   screen, firstSaved, calls,
                   prefs, scheduled, sky>>

\* this.calculateStats(observations) once more, with the array the first call
\* left behind
CalculateStatsAgain ==
    /\ pc = "returned"
    /\ again' = Item(calculateStats(input, now, tz))
    /\ input' = ArrayAfterStats(input)
    /\ pc' = "again"
    /\ UNCHANGED <<obsItem, statsItem, now, tz, last, given, result,
                   screen, firstSaved, calls,
                   prefs, scheduled, sky>>

NextStats == CalculateStats \/ CalculateStatsAgain

SpecStats == InitStats /\ [][NextStats]_vars

----------------------------------------------------------------------------
(* The service over the store: calls awaited one after the other *)

\* what the log screen may hand to saveObservation at the time given: a
\* record stamped then, or one stamped at time 0
SaveInputs(time) ==
    { Observation(id, s, 0, 1260, 1380, 10, 3, 0, u) :
        id \in ObsIds, s \in { "perseids", "geminids" }, u \in { 0, time } }

Init ==
    /\ obsItem = NoItem(<< >>)
    /\ statsItem = NoItem(<< >>)
    /\ now = 0
    /\ tz = 0
    /\ last = NoCall
    /\ given = << >>
    /\ input = << >>
    /\ result = NoItem(<< >>)
    /\ again = NoItem(<< >>)
    /\ screen = NoScreen
    /\ firstSaved = NeverSaved
    /\ calls = NoCalls
    /\ prefs = NoPrefs
    /\ scheduled = {}
    /\ sky = NoSky
    /\ pc = "idle"

\* saveObservation(observation), with the storage errors f
SaveObservation(observation, f) ==
    LET observations == getObservations(obsItem, f.listRead)
        written      == Upsert(observations, observation, now)
        listItem     == setItem(obsItem, StringifyObservations(written), f.listWrite)
    IN  /\ pc = "idle"
        /\ obsItem' = listItem
        /\ statsItem' = IF f.listWrite THEN statsItem
                        ELSE updateStats(listItem, statsItem, now, tz, f)
        /\ last' = [ op |-> "save", id |-> observation.id, obs |-> observation,
                     before |-> obsItem, threw |-> f.listWrite,
                     listError |-> f.listRead \/ f.listWrite ]
        /\ UNCHANGED <<now, tz, given, input, result, again,
                       pc, screen, firstSaved, calls,
                       prefs, scheduled, sky>>

\* deleteObservation(observationId), with the storage errors f
DeleteObservation(observationId, f) ==
    LET observations == getObservations(obsItem, f.listRead)
        filtered     == FilterOutId(observations, observationId)
        listItem     == setItem(obsItem, StringifyObservations(filtered), f.listWrite)
    IN  /\ pc = "idle"
        /\ obsItem' = listItem
        /\ statsItem' = IF f.listWrite THEN statsItem
                        ELSE updateStats(listItem, statsItem, now, tz, f)
        /\ last' = [ op |-> "delete", id |-> observationId, obs |-> NoObservation,
                     before |-> obsItem, threw |-> f.listWrite,
                     listError |-> f.listRead \/ f.listWrite ]
        /\ UNCHANGED <<now, tz, given, input, result, again,
                       pc, screen, firstSaved, calls,
                       prefs, scheduled, sky>>

\* time passes between two calls
Tick ==
    /\ pc = "idle"
    /\ now < MaxTime
    /\ now' = now + 1
    /\ last' = NoCall
    /\ UNCHANGED <<obsItem, statsItem, tz, given, input, result, again,
                   pc, screen, firstSaved, calls,
                   prefs, scheduled, sky>>

Next ==
    \/ \E o \in SaveInputs(now), f \in Failures : SaveObservation(o, f)
    \/ \E id \in ObsIds, f \in Failures : DeleteObservation(id, f)
    \/ Tick

Spec == Init /\ [][Next]_vars

----------------------------------------------------------------------------
(* The two reads of the service, over stores drawn from bounded sets *)

\* the lists saveObservation can have written: records of different ids
StoredLists ==
    { l \in ListsOf(SaveInputs(0)) :
        \A i, j \in DOMAIN l : i # j => l[i].id # l[j].id }

\* item 'user_observations': absent, damaged, or the text of a list
ListItems ==
    { NoItem(<< >>), Unparsable }
        \cup { Item(StringifyObservations(l)) : l \in StoredLists }

\* item 'observation_stats': absent, damaged, or the text of the stats of a
\* list
StatsItems ==
    { NoItem(<< >>), Unparsable }
        \cup { Item(StringifyStats(calculateStats(l, 0, 0))) : l \in StoredLists }

InitRead ==
    /\ obsItem \in ListItems
    /\ statsItem \in StatsItems
    /\ now = 0
    /\ tz = 0
    /\ last = NoCall
    /\ given = << >>
    /\ input = << >>
    /\ result = NoItem(<< >>)
    /\ again = NoItem(<< >>)
    /\ screen = NoScreen
    /\ firstSaved = NeverSaved
    /\ calls = NoCalls
    /\ prefs = NoPrefs
    /\ scheduled = {}
    /\ sky = NoSky
    /\ pc = "idle"

\* getObservations(), with getItem throwing or not
GetObservations(readFails) ==
    /\ pc = "idle"
    /\ result' = Item(getObservations(obsItem, readFails))
    /\ last' = [ op |-> "getObservations", id |-> "", obs |-> NoObservation,
                 before |-> obsItem, statsBefore |-> statsItem,
                 threw |-> FALSE, listError |-> readFails ]
    /\ UNCHANGED <<obsItem, statsItem, now, tz, given, input, again,
                   pc, screen, firstSaved, calls,
                   prefs, scheduled, sky>>

\* getStats(), with getItem throwing or not
GetStats(readFails) ==
    /\ pc = "idle"
    /\ result' = Item(getStats(statsItem, readFails))
    /\ last' = [ op |-> "getStats", id |-> "", obs |-> NoObservation,
                 before |-> obsItem, statsBefore |-> statsItem,
                 threw |-> FALSE, listError |-> readFails ]
    /\ UNCHANGED <<obsItem, statsItem, now, tz, given, input, again,
                   pc, screen, firstSaved, calls,
                   prefs, scheduled, sky>>

NextRead ==
    \/ \E readFails \in BOOLEAN : GetObservations(readFails)
    \/ \E readFails \in BOOLEAN : GetStats(readFails)

SpecRead == InitRead /\ [][NextRead]_vars


----------------------------------------------------------------------------
(* The log screen: the callers of the service *)

\* the comparator of loadData's sort, (a, b) => b.date - a.date: a stays
\* before b
RECURSIVE InsertNewestFirst(_, _)
InsertNewestFirst(sorted, o) ==
    IF sorted = << >> THEN << o >>
    ELSE IF DateInstant(o.date) - DateInstant(Head(sorted).date) <= 0
         THEN << Head(sorted) >> \o InsertNewestFirst(Tail(sorted), o)
         ELSE << o >> \o sorted

\* observationsData.sort(...): newest first
RECURSIVE SortNewestFirst(_)
SortNewestFirst(obs) ==
    IF obs = << >> THEN << >>
    ELSE InsertNewestFirst(SortNewestFirst(SubSeq(obs, 1, Len(obs) - 1)),
                           obs[Len(obs)])

\* loadData(): the screen's state afterwards; neither read throws
loadData(listItem, oldStats, f) ==
    [ observations |-> SortNewestFirst(getObservations(listItem, f.listRead)),
      stats        |-> Item(getStats(oldStats, f.statsRead)) ]

\* the storage errors of loadData: those of reading the list
LoadFailures ==
    { f \in Failures : ~f.listWrite /\ ~f.statsRead /\ ~f.statsWrite }

\* the storage errors of one handler: those of the list item in its call of
\* the service and in the loadData that follows, MaxFailures of them at most
HandlerFailures ==
    { ff \in Failures \X LoadFailures :
        /\ ~ff[1].statsRead /\ ~ff[1].statsWrite
        /\ Cardinality({ call \in DOMAIN ff[1] : ff[1][call] })
             + Cardinality({ call \in DOMAIN ff[2] : ff[2][call] }) <= MaxFailures }

\* what the form holds when Save is pressed: the shower picked from the
\* catalog, or none picked; the other fields as the form starts out
Forms(time) ==
    { [ showerId |-> s, date |-> time \div TicksPerDay, startTime |-> 1260,
        endTime |-> 1380, meteorsCount |-> 0, rating |-> 3 ] :
        s \in { "", "perseids" } }

\* the record opened in the modal: one of the list on screen, or none
Selections == { NoObservation } \cup Range(screen.observations)

\* generateObservationId(): an id that no record has
FreshIds ==
    ObsIds \ ({ o.id : o \in Range(getObservations(obsItem, FALSE)) }
                 \cup { o.id : o \in Range(screen.observations) })

ObservationData_FreshCreatedAt(observation, formData, newId, time) ==
    Observation(IF observation.id # "" THEN observation.id ELSE newId,
                formData.showerId, formData.date, formData.startTime,
                formData.endTime, formData.meteorsCount, formData.rating,
                time, time)

\* const observationData: Observation = {...} of handleSave
ObservationData(observation, formData, newId, time) ==
    Observation(IF observation.id # "" THEN observation.id ELSE newId,
                formData.showerId, formData.date, formData.startTime,
                formData.endTime, formData.meteorsCount, formData.rating,
                IF observation = NoObservation THEN time ELSE observation.createdAt,
                time)

InitLog ==
    /\ obsItem = NoItem(<< >>)
    /\ statsItem = NoItem(<< >>)
    /\ now = 0
    /\ tz = 0
    /\ last = NoCall
    /\ given = << >>
    /\ input = << >>
    /\ result = NoItem(<< >>)
    /\ again = NoItem(<< >>)
    /\ screen = NoScreen
    /\ firstSaved = NeverSaved
    /\ calls = NoCalls
    /\ prefs = NoPrefs
    /\ scheduled = {}
    /\ sky = NoSky
    /\ pc = "mount"

\* loadData(), on mount and on pull to refresh
LoadData(f) ==
    /\ pc \in { "mount", "idle" }
    /\ screen' = loadData(obsItem, statsItem, f)
    /\ pc' = "idle"
    /\ last' = NoCall
    /\ UNCHANGED <<obsItem, statsItem, now, tz, given, input, result, again,
                   firstSaved, calls,
                   prefs, scheduled, sky>>

\* handleSave of the modal opened on observation (none: Add), with the form
\* as given; saveObservation, then onSave = loadData
HandleSave(observation, formData, newId, f, fl) ==
    LET observationData == ObservationData(observation, formData, newId, now)
        observations    == getObservations(obsItem, f.listRead)
        written         == Upsert(observations, observationData, now)
        listItem        == setItem(obsItem, StringifyObservations(written), f.listWrite)
        newStats        == IF f.listWrite THEN statsItem
                           ELSE updateStats(listItem, statsItem, now, tz, f)
    IN  /\ pc = "idle"
        /\ obsItem' = listItem
        /\ statsItem' = newStats
        /\ screen' = IF f.listWrite THEN screen ELSE loadData(listItem, newStats, fl)
        /\ firstSaved' = IF observation = NoObservation /\ ~f.listWrite
                         THEN [firstSaved EXCEPT ![observationData.id] =
                                   observationData.createdAt]
                         ELSE firstSaved
        /\ last' = [ op |-> "save", id |-> observationData.id,
                     obs |-> observationData, before |-> obsItem,
                     threw |-> f.listWrite,
                     listError |-> f.listRead \/ f.listWrite ]
        /\ UNCHANGED <<now, tz, given, input, result, again, calls, pc,
                       prefs, scheduled, sky>>

\* the Delete button of the alert handleDeleteObservation shows:
\* deleteObservation, then loadData
HandleDelete(observation, f, fl) ==
    LET observations == getObservations(obsItem, f.listRead)
        filtered     == FilterOutId(observations, observation.id)
        listItem     == setItem(obsItem, StringifyObservations(filtered), f.listWrite)
        newStats     == IF f.listWrite THEN statsItem
                        ELSE updateStats(listItem, statsItem, now, tz, f)
    IN  /\ pc = "idle"
        /\ obsItem' = listItem
        /\ statsItem' = newStats
        /\ screen' = IF f.listWrite THEN screen ELSE loadData(listItem, newStats, fl)
        /\ last' = [ op |-> "delete", id |-> observation.id, obs |-> NoObservation,
                     before |-> obsItem, threw |-> f.listWrite,
                     listError |-> f.listRead \/ f.listWrite ]
        /\ UNCHANGED <<now, tz, given, input, result, again, firstSaved, calls, pc,
                       prefs, scheduled, sky>>

\* time passes between two presses
TickLog ==
    /\ pc = "idle"
    /\ now < MaxTime
    /\ now' = now + 1
    /\ last' = NoCall
    /\ UNCHANGED <<obsItem, statsItem, tz, given, input, result, again, screen,
                   firstSaved, calls, pc,
                   prefs, scheduled, sky>>

NextLog ==
    \/ \E f \in LoadFailures : LoadData(f)
    \/ \E observation \in Selections, formData \in Forms(now), ff \in HandlerFailures :
          \/ /\ observation = NoObservation
             /\ \E newId \in FreshIds :
                   HandleSave(observation, formData, newId, ff[1], ff[2])
          \/ /\ observation # NoObservation
             /\ HandleSave(observation, formData, observation.id, ff[1], ff[2])
    \/ \E observation \in Range(screen.observations), ff \in HandlerFailures :
          HandleDelete(observation, ff[1], ff[2])
    \/ TickLog

SpecLog == InitLog /\ [][NextLog]_vars

----------------------------------------------------------------------------
(* The service with several calls in flight: each await is a step *)

\* the records handed to saveObservation while calls overlap
AsyncInputs == { o \in SaveInputs(now) : o.showerId = "perseids" }

\* saveObservation(observation) is called: it runs up to its first await
StartSave(c, observation) ==
    /\ pc = "idle"
    /\ calls[c].at = "idle"
    /\ calls' = [calls EXCEPT ![c] =
                    [ op |-> "save", id |-> observation.id, obs |-> observation,
                      at |-> "read", observations |-> << >> ]]
    /\ UNCHANGED <<obsItem, statsItem, now, tz, last, given, input, result,
                   again, screen, firstSaved, pc,
                   prefs, scheduled, sky>>

\* deleteObservation(observationId) is called
StartDelete(c, observationId) ==
    /\ pc = "idle"
    /\ calls[c].at = "idle"
    /\ calls' = [calls EXCEPT ![c] =
                    [ op |-> "delete", id |-> observationId, obs |-> NoObservation,
                      at |-> "read", observations |-> << >> ]]
    /\ UNCHANGED <<obsItem, statsItem, now, tz, last, given, input, result,
                   again, screen, firstSaved, pc,
                   prefs, scheduled, sky>>

\* const observations = await this.getObservations()
ReadList(c) ==
    /\ calls[c].at = "read"
    /\ calls' = [calls EXCEPT ![c].observations = getObservations(obsItem, FALSE),
                              ![c].at = "write"]
    /\ UNCHANGED <<obsItem, statsItem, now, tz, last, given, input, result,
                   again, screen, firstSaved, pc,
                   prefs, scheduled, sky>>

\* the list this call read, changed, goes to the store:
\* await AsyncStorage.setItem(this.OBSERVATIONS_KEY, ...)
WriteList(c) ==
    LET call    == calls[c]
        written == IF call.op = "save"
                   THEN Upsert(call.observations, call.obs, now)
                   ELSE FilterOutId(call.observations, call.id)
    IN  /\ call.at = "write"
        /\ obsItem' = setItem(obsItem, StringifyObservations(written), FALSE)
        /\ calls' = [calls EXCEPT ![c].observations = written,
                                  ![c].at = "statsRead"]
        /\ UNCHANGED <<statsItem, now, tz, last, given, input, result, again,
                       screen, firstSaved, pc,
                       prefs, scheduled, sky>>

\* updateStats: const observations = await this.getObservations()
StatsRead(c) ==
    /\ calls[c].at = "statsRead"
    /\ calls' = [calls EXCEPT ![c].observations = getObservations(obsItem, FALSE),
                              ![c].at = "statsWrite"]
    /\ UNCHANGED <<obsItem, statsItem, now, tz, last, given, input, result,
                   again, screen, firstSaved, pc,
                   prefs, scheduled, sky>>

\* updateStats: calculateStats of the list it read, and
\* await AsyncStorage.setItem(this.STATS_KEY, ...); the call returns
StatsWrite(c) ==
    LET stats == calculateStats(calls[c].observations, now, tz)
    IN  /\ calls[c].at = "statsWrite"
        /\ statsItem' = setItem(statsItem, StringifyStats(stats), FALSE)
        /\ calls' = [calls EXCEPT ![c].observations = << >>, ![c].at = "done"]
        /\ UNCHANGED <<obsItem, now, tz, last, given, input, result, again,
                       screen, firstSaved, pc,
                       prefs, scheduled, sky>>

\* every call that was made has returned; the next ones start afresh
Settle ==
    /\ \E c \in DOMAIN calls : calls[c].at = "done"
    /\ \A c \in DOMAIN calls : calls[c].at \in { "idle", "done" }
    /\ calls' = NoCalls
    /\ UNCHANGED <<obsItem, statsItem, now, tz, last, given, input, result,
                   again, screen, firstSaved, pc,
                   prefs, scheduled, sky>>

NextAsync ==
    \/ \E c \in DOMAIN calls, o \in AsyncInputs : StartSave(c, o)
    \/ \E c \in DOMAIN calls, id \in ObsIds : StartDelete(c, id)
    \/ \E c \in DOMAIN calls : ReadList(c)
    \/ \E c \in DOMAIN calls : WriteList(c)
    \/ \E c \in DOMAIN calls : StatsRead(c)
    \/ \E c \in DOMAIN calls : StatsWrite(c)
    \/ Settle

SpecAsync == Init /\ [][NextAsync]_vars

----------------------------------------------------------------------------
(* NotificationService, its calls taking one native call at a time *)

\* instants around the peaks of the leonids and the geminids: seven and two
\* days before midnight of the leonids' peak date, the afternoon before it,
\* and that midnight itself
NotifyTimes ==
    { DateInstant(313), DateInstant(318), DateInstant(319) + 1,
      DateInstant(320) }

NotifyZones == { -5, 0 }

\* the settings the screens hand over: the defaults of StorageService, seven
\* days for two, 16 for 15, the advance reminder switched off, and
\* notifications disabled
NotifySettings ==
    { NotificationSettings(TRUE, peakReminder, daysBefore, 6, minimumZHR) :
        peakReminder \in BOOLEAN, daysBefore \in { 2, 7 },
        minimumZHR \in { 15, 16 } }
      \cup { NotificationSettings(FALSE, TRUE, 2, 6, 15) }

InitNotify ==
    /\ obsItem = NoItem(<< >>)
    /\ statsItem = NoItem(<< >>)
    /\ now \in NotifyTimes
    /\ tz \in NotifyZones
    /\ last = NoCall
    /\ given = << >>
    /\ input = << >>
    /\ result = NoItem(<< >>)
    /\ again = NoItem(<< >>)
    /\ screen = NoScreen
    /\ firstSaved = NeverSaved
    /\ calls = NoCalls
    /\ prefs = NoPrefs
    /\ scheduled = {}
    /\ sky = NoSky
    /\ pc = "idle"

\* scheduleShowerNotifications(settings) is called; it returns at once when
\* notifications are disabled
ScheduleShowerNotifications(c, settings) ==
    /\ calls[c].at = "idle"
    /\ calls' = [calls EXCEPT ![c] =
                    [ op |-> "schedule", settings |-> settings,
                      at |-> IF settings.enabled THEN "cancel" ELSE "done",
                      next |-> 0, threw |-> FALSE ]]
    /\ UNCHANGED <<obsItem, statsItem, now, tz, last, given, input, result,
                   again, screen, firstSaved, pc,
                   prefs, scheduled, sky>>

\* await Notifications.cancelAllScheduledNotificationsAsync()
CancelScheduled(c) ==
    /\ calls[c].at = "cancel"
    /\ scheduled' = {}
    /\ calls' = [calls EXCEPT ![c].at = "permission"]
    /\ UNCHANGED <<obsItem, statsItem, now, tz, last, given, input, result,
                   again, screen, firstSaved, pc,
                   prefs, sky>>

\* const hasPermission = await this.requestPermissions(); the call throws
\* when it is false, else the loop over the catalog starts
RequestPermissions(c, hasPermission) ==
    LET first == NextShower(1, calls[c].settings, Minutes(now))
    IN  /\ calls[c].at = "permission"
        /\ calls' = [calls EXCEPT
                        ![c].at = IF hasPermission /\ first > 0
                                  THEN "showers" ELSE "done",
                        ![c].next = IF hasPermission THEN first ELSE 0,
                        ![c].threw = ~hasPermission]
        /\ UNCHANGED <<obsItem, statsItem, now, tz, last, given, input,
                       result, again, screen, firstSaved, pc,
                       prefs, scheduled, sky>>

\* await this.scheduleShowerReminders(shower, settings) for the next shower
\* of the loop; the call returns after the last one
ScheduleShowerReminders(c) ==
    LET call    == calls[c]
        shower  == METEOR_SHOWERS_2025[call.next]
        onwards == NextShower(call.next + 1, call.settings, Minutes(now))
    IN  /\ call.at = "showers"
        /\ scheduled' = scheduled \cup
               scheduleShowerReminders(shower, call.settings, Minutes(now),
                                       tz, c)
        /\ calls' = [calls EXCEPT
                        ![c].at = IF onwards > 0 THEN "showers" ELSE "done",
                        ![c].next = onwards]
        /\ UNCHANGED <<obsItem, statsItem, now, tz, last, given, input,
                       result, again, screen, firstSaved, pc,
                       prefs, sky>>

\* cancelAllNotifications()
CancelAllNotifications ==
    /\ scheduled # {}
    /\ scheduled' = {}
    /\ UNCHANGED <<obsItem, statsItem, now, tz, last, given, input, result,
                   again, screen, firstSaved, calls, pc,
                   prefs, sky>>

\* no call is under way, and the last one has been settled
NoneInFlight == \A c \in DOMAIN calls : calls[c].at = "idle"

\* each call is awaited before the next is made
NextNotify ==
    \/ \E c \in DOMAIN calls, settings \in NotifySettings :
           NoneInFlight /\ ScheduleShowerNotifications(c, settings)
    \/ \E c \in DOMAIN calls : CancelScheduled(c)
    \/ \E c \in DOMAIN calls, hasPermission \in BOOLEAN :
           RequestPermissions(c, hasPermission)
    \/ \E c \in DOMAIN calls : ScheduleShowerReminders(c)
    \/ NoneInFlight /\ CancelAllNotifications
    \/ Settle

SpecNotify == InitNotify /\ [][NextNotify]_vars

\* a call may be made while others are under way
NextNotifyAsync ==
    \/ \E c \in DOMAIN calls, settings \in NotifySettings :
           ScheduleShowerNotifications(c, settings)
    \/ \E c \in DOMAIN calls : CancelScheduled(c)
    \/ \E c \in DOMAIN calls, hasPermission \in BOOLEAN :
           RequestPermissions(c, hasPermission)
    \/ \E c \in DOMAIN calls : ScheduleShowerReminders(c)
    \/ CancelAllNotifications
    \/ Settle

SpecNotifyAsync == InitNotify /\ [][NextNotifyAsync]_vars

----------------------------------------------------------------------------
(* AstronomyService applied to showers, latitudes and moons *)

\* the catalog, and its showers as they would be were they southern ones
Showers ==
    Range(METEOR_SHOWERS_2025)
      \cup { [shower EXCEPT !.hemisphere = "southern"] :
                shower \in Range(METEOR_SHOWERS_2025) }

\* location.latitude in tenths of a degree: the poles, the equator, and the
\* values at and next to 0, 30 and 60 degrees on both sides
Latitudes ==
    { sign * absLat : sign \in { -1, 1 },
                      absLat \in { 0, 1, 299, 300, 301, 599, 600, 601, 900 } }

\* getMoonIllumination(date) over the dates: Math.round of a number
\* between 0 and 100
MoonIlluminations == 0..100

InitAstro ==
    /\ obsItem = NoItem(<< >>)
    /\ statsItem = NoItem(<< >>)
    /\ now \in { DateInstant(0), DateInstant(223) }
    /\ tz = 0
    /\ last = NoCall
    /\ given = << >>
    /\ input = << >>
    /\ result = NoItem(<< >>)
    /\ again = NoItem(<< >>)
    /\ screen = NoScreen
    /\ firstSaved = NeverSaved
    /\ calls = NoCalls
    /\ prefs = NoPrefs
    /\ scheduled = {}
    /\ sky = NoSky
    /\ pc = "idle"

IsShowerVisible(shower, latitude) ==
    /\ sky' = [ fn |-> "isShowerVisible", shower |-> shower,
                latitude |-> latitude,
                result |-> isShowerVisible(shower, latitude) ]
    /\ UNCHANGED <<obsItem, statsItem, now, tz, last, given, input, result,
                   again, screen, firstSaved, calls, pc,
                   prefs, scheduled>>

CalculateViewingConditions(shower, latitude, moonIllumination) ==
    /\ sky' = [ fn |-> "calculateViewingConditions", shower |-> shower,
                latitude |-> latitude, moonIllumination |-> moonIllumination,
                result |-> calculateViewingConditions(shower, latitude,
                                                     moonIllumination) ]
    /\ UNCHANGED <<obsItem, statsItem, now, tz, last, given, input, result,
                   again, screen, firstSaved, calls, pc,
                   prefs, scheduled>>

\* one call is made
NextAstro ==
    \/ /\ sky = NoSky
       /\ \E shower \in Showers, latitude \in Latitudes :
              IsShowerVisible(shower, latitude)
    \/ /\ sky = NoSky
       /\ \E shower \in Showers, latitude \in Latitudes,
             moonIllumination \in MoonIlluminations :
              CalculateViewingConditions(shower, latitude, moonIllumination)

SpecAstro == InitAstro /\ [][NextAstro]_vars

----------------------------------------------------------------------------
(* StorageService and the settings screen, each call awaited *)

FavoriteIds == { "perseids", "geminids", "leonids" }

\* a call of StorageService: the favourites and the observation items as
\* they were before it
PrefCall(op, id, threw) ==
    [ op |-> op, id |-> id, threw |-> threw,
      before |-> getFavoriteShowers(prefs["@radiant_favorite_showers"], FALSE),
      observationsBefore |-> obsItem, statsBefore |-> statsItem ]

\* saveUserLocation(location)
SaveUserLocation(location, f) ==
    /\ prefs' = [prefs EXCEPT !["@radiant_user_location"] =
                    setItem(@, StringifyObject(location, LocationFields),
                            f.write)]
    /\ last' = PrefCall("saveUserLocation", "", f.write)
    /\ UNCHANGED <<obsItem, statsItem, now, tz, given, input, result, again,
                   screen, firstSaved, calls, pc,
                   scheduled, sky>>

\* saveNotificationSettings(settings)
SaveNotificationSettings(settings, f) ==
    /\ prefs' = [prefs EXCEPT !["@radiant_notification_settings"] =
                    setItem(@, StringifyObject(settings, SettingsFields),
                            f.write)]
    /\ last' = PrefCall("saveNotificationSettings", "", f.write)
    /\ UNCHANGED <<obsItem, statsItem, now, tz, given, input, result, again,
                   screen, firstSaved, calls, pc,
                   scheduled, sky>>

\* setOnboardingCompleted(completed)
SetOnboardingCompleted(completed, f) ==
    /\ prefs' = [prefs EXCEPT !["@radiant_onboarding_completed"] =
                    setItem(@, BooleanText(completed), f.write)]
    /\ last' = PrefCall("setOnboardingCompleted", "", f.write)
    /\ UNCHANGED <<obsItem, statsItem, now, tz, given, input, result, again,
                   screen, firstSaved, calls, pc,
                   scheduled, sky>>

\* addFavoriteShower(showerId), with the storage errors f
AddFavoriteShower(showerId, f) ==
    LET item == prefs["@radiant_favorite_showers"]
    IN  /\ prefs' = [prefs EXCEPT !["@radiant_favorite_showers"] =
                        addFavoriteShower(item, showerId, f)]
        /\ last' = PrefCall("addFavoriteShower", showerId,
                            /\ f.write
                            /\ ~Includes(getFavoriteShowers(item, f.read),
                                         showerId))
        /\ UNCHANGED <<obsItem, statsItem, now, tz, given, input, result,
                       again, screen, firstSaved, calls, pc,
                       scheduled, sky>>

\* removeFavoriteShower(showerId), with the storage errors f
RemoveFavoriteShower(showerId, f) ==
    /\ prefs' = [prefs EXCEPT !["@radiant_favorite_showers"] =
                    removeFavoriteShower(@, showerId, f)]
    /\ last' = PrefCall("removeFavoriteShower", showerId, f.write)
    /\ UNCHANGED <<obsItem, statsItem, now, tz, given, input, result, again,
                   screen, firstSaved, calls, pc,
                   scheduled, sky>>

\* recordAppOpen(), awaited: its own read of the engagement, then
\* updateUserEngagement; the errors of either are logged, not thrown
RecordAppOpen(f) ==
    LET item       == prefs["@radiant_user_engagement"]
        engagement == getUserEngagement(item, FALSE, now)
    IN  /\ engagement.appOpens < MaxCalls
        /\ prefs' = [prefs EXCEPT !["@radiant_user_engagement"] =
                        updateUserEngagement(
                            item, AppOpenUpdates(engagement, now), now, f)]
        /\ last' = PrefCall("recordAppOpen", "", FALSE)
        /\ UNCHANGED <<obsItem, statsItem, now, tz, given, input, result,
                       again, screen, firstSaved, calls, pc,
                       scheduled, sky>>

\* saveThemePreference(theme)
SaveThemePreference(theme, f) ==
    /\ prefs' = [prefs EXCEPT !["@radiant_theme_preference"] =
                    setItem(@, theme, f.write)]
    /\ last' = PrefCall("saveThemePreference", "", f.write)
    /\ UNCHANGED <<obsItem, statsItem, now, tz, given, input, result, again,
                   screen, firstSaved, calls, pc,
                   scheduled, sky>>

\* Clear All of the settings screen: StorageService.clearAllData(), then
\* NotificationService.cancelAllNotifications(); loadSettings() reads only
ClearAllData(fails) ==
    /\ prefs' = [ key \in DOMAIN prefs |->
                    multiRemove(key, prefs[key], STORAGE_KEYS, fails) ]
    /\ obsItem' = multiRemove(OBSERVATIONS_KEY, obsItem, STORAGE_KEYS, fails)
    /\ statsItem' = multiRemove(STATS_KEY, statsItem, STORAGE_KEYS, fails)
    /\ scheduled' = IF fails THEN scheduled ELSE {}
    /\ last' = PrefCall("clearAllData", "", fails)
    /\ UNCHANGED <<now, tz, given, input, result, again, screen, firstSaved,
                   calls, pc, sky>>

\* what the screens save
PrefInputs ==
    [ location |-> UserLocation(515, -1),
      settings |-> NotificationSettings(FALSE, TRUE, 7, 2, 25),
      observation |-> Observation("obs_1", "perseids", 0, 1260, 1380, 10, 3,
                                  0, 0) ]

\* the storage errors are those of the favourites and of clearing
NextPrefs ==
    \/ SaveUserLocation(PrefInputs.location, NoPrefFailure)
    \/ SaveNotificationSettings(PrefInputs.settings, NoPrefFailure)
    \/ SetOnboardingCompleted(TRUE, NoPrefFailure)
    \/ \E showerId \in FavoriteIds, f \in PrefFailures :
           AddFavoriteShower(showerId, f)
    \/ \E showerId \in FavoriteIds, f \in PrefFailures :
           RemoveFavoriteShower(showerId, f)
    \/ RecordAppOpen(NoPrefFailure)
    \/ SaveThemePreference("dark", NoPrefFailure)
    \/ SaveObservation(PrefInputs.observation, NoFailure)
    \/ \E fails \in BOOLEAN : ClearAllData(fails)

SpecPrefs == Init /\ [][NextPrefs]_vars

----------------------------------------------------------------------------
(* the engagement record, its calls taking one AsyncStorage call at a time *)

\* the updates a call passes to updateUserEngagement, given the engagement
\* it read itself; updateUserEngagement called directly is handed its own
EngagementUpdates(op, id, engagement, time) ==
    CASE op = "recordAppOpen" -> AppOpenUpdates(engagement, time)
      [] op = "recordShowerViewed" -> ShowerViewedUpdates(engagement, id)
      [] op = "recordNotificationInteraction" ->
             NotificationInteractionUpdates(engagement)
      [] op = "updateUserEngagement" -> [researchParticipation |-> TRUE]

ViewedIds == { "perseids", "geminids" }

\* recordAppOpen(), recordShowerViewed(showerId) or
\* recordNotificationInteraction() is called
StartRecord(c, op, id) ==
    /\ pc = "idle"
    /\ calls[c].at = "idle"
    /\ calls' = [calls EXCEPT ![c] =
                    [ op |-> op, id |-> id, at |-> "read",
                      updates |-> << >>, updatedEngagement |-> << >> ]]
    /\ UNCHANGED <<obsItem, statsItem, now, tz, last, given, input, result,
                   again, screen, firstSaved, pc,
                   prefs, scheduled, sky>>

\* updateUserEngagement({researchParticipation}) is called
StartUpdate(c) ==
    /\ pc = "idle"
    /\ calls[c].at = "idle"
    /\ calls' = [calls EXCEPT ![c] =
                    [ op |-> "updateUserEngagement", id |-> "",
                      at |-> "updateRead",
                      updates |-> EngagementUpdates("updateUserEngagement",
                                      "", DefaultEngagement(now), now),
                      updatedEngagement |-> << >> ]]
    /\ UNCHANGED <<obsItem, statsItem, now, tz, last, given, input, result,
                   again, screen, firstSaved, pc,
                   prefs, scheduled, sky>>

\* const engagement = await this.getUserEngagement(), and the updates made
\* from it
RecordRead(c) ==
    LET engagement ==
            getUserEngagement(prefs["@radiant_user_engagement"], FALSE, now)
    IN  /\ calls[c].at = "read"
        /\ calls' = [calls EXCEPT
                        ![c].updates = EngagementUpdates(calls[c].op,
                                           calls[c].id, engagement, now),
                        ![c].at = "updateRead"]
        /\ UNCHANGED <<obsItem, statsItem, now, tz, last, given, input,
                       result, again, screen, firstSaved, pc,
                       prefs, scheduled, sky>>

\* updateUserEngagement: const currentEngagement = await
\* this.getUserEngagement(), and the updates spread over it
UpdateRead(c) ==
    LET currentEngagement ==
            getUserEngagement(prefs["@radiant_user_engagement"], FALSE, now)
    IN  /\ calls[c].at = "updateRead"
        /\ calls' = [calls EXCEPT
                        ![c].updatedEngagement =
                            Spread(currentEngagement, calls[c].updates),
                        ![c].at = "write"]
        /\ UNCHANGED <<obsItem, statsItem, now, tz, last, given, input,
                       result, again, screen, firstSaved, pc,
                       prefs, scheduled, sky>>

\* updateUserEngagement: await AsyncStorage.setItem(USER_ENGAGEMENT, ...);
\* the call returns
UpdateWrite(c) ==
    /\ calls[c].at = "write"
    /\ prefs' = [prefs EXCEPT !["@radiant_user_engagement"] =
                    setItem(@, StringifyObject(calls[c].updatedEngagement,
                                               EngagementFields), FALSE)]
    /\ calls' = [calls EXCEPT ![c].at = "done"]
    /\ UNCHANGED <<obsItem, statsItem, now, tz, last, given, input, result,
                   again, screen, firstSaved, pc,
                   scheduled, sky>>

\* MaxCalls calls are made, each at any moment
NextEngage ==
    \/ \E c \in DOMAIN calls :
           \/ StartRecord(c, "recordAppOpen", "")
           \/ StartRecord(c, "recordNotificationInteraction", "")
    \/ \E c \in DOMAIN calls, showerId \in ViewedIds :
           StartRecord(c, "recordShowerViewed", showerId)
    \/ \E c \in DOMAIN calls : StartUpdate(c)
    \/ \E c \in DOMAIN calls : RecordRead(c)
    \/ \E c \in DOMAIN calls : UpdateRead(c)
    \/ \E c \in DOMAIN calls : UpdateWrite(c)

SpecEngage == Init /\ [][NextEngage]_vars

----------------------------------------------------------------------------
(* What the statistics are claimed to be, stated without the code's loops *)

Indices(obs) == 1..Len(obs)

\* the dates of the list in ascending order
AscendingDates(obs) ==
    CHOOSE s \in [Indices(obs) -> { obs[i].date : i \in Indices(obs) }] :
        /\ \A i \in 1..(Len(obs) - 1) : s[i] <= s[i + 1]
        /\ \A d \in Range(s) :
              Cardinality({ i \in Indices(obs) : s[i] = d })
                  = Cardinality({ i \in Indices(obs) : obs[i].date = d })

\* positions i..j of s form a run: neighbours at most 7 days apart
IsRun(s, i, j) == \A k \in i..(j - 1) : s[k + 1] - s[k] <= 7

LongestRun(s) ==
    CHOOSE m \in 1..Len(s) :
        /\ \E i \in 1..(Len(s) - m + 1) : IsRun(s, i, i + m - 1)
        /\ \A i, j \in 1..Len(s) : (i <= j /\ IsRun(s, i, j)) => j - i + 1 <= m

\* the length of the run that ends at the last position
TrailingRun(s) ==
    CHOOSE m \in 1..Len(s) :
        /\ IsRun(s, Len(s) - m + 1, Len(s))
        /\ \A i \in 1..Len(s) : IsRun(s, i, Len(s)) => Len(s) - i + 1 <= m

Returned == pc = "returned" /\ result.has

\* C7: for a non-empty list in any order, longestStreak is the length of the
\* longest run of the dates in ascending order in which neighbours are at
\* most 7 days apart (7 days continue a run, 8 days break it, equal dates
\* both count).
C7_LongestStreakIsLongestRun ==
    (Returned /\ Len(given) > 0) =>
        result.val.longestStreak = LongestRun(AscendingDates(given))

\* 2025-01-20, 2025-01-05, 2025-01-12 handed over unsorted: 7 days continue,
\* 8 days break
C7_Witness ==
    /\ Returned
    /\ Len(given) = 3
    /\ given[1].date = 19 /\ given[2].date = 4 /\ given[3].date = 11
    /\ result.val.longestStreak = 2

\* C8: for a non-empty list, currentStreak is the length of the run ending at
\* the latest observation when that observation's date is at most 7 days
\* before the evaluation time, and 0 otherwise; a single observation gives
\* {1, 1} within 7 days of now and {0, 1} otherwise.
C8_CurrentStreakIsTrailingRun ==
    (Returned /\ Len(given) > 0) =>
        LET s      == AscendingDates(given)
            within == now - s[Len(s)] * TicksPerDay <= 7 * TicksPerDay
        IN  /\ result.val.currentStreak = (IF within THEN TrailingRun(s) ELSE 0)
            /\ Len(given) = 1 =>
                  /\ result.val.longestStreak = 1
                  /\ result.val.currentStreak = (IF within THEN 1 ELSE 0)

\* a run of two ending exactly 7 days before now, after an earlier break
C8_Witness ==
    /\ Returned
    /\ Len(given) = 3
    /\ given[1].date = 19 /\ given[2].date = 0 /\ given[3].date = 19
    /\ now = DateInstant(19 + 7)
    /\ result.val.currentStreak = 2

\* the sessions of a shower, by position in the list handed over
SessionsOf(obs, showerId) == { i \in Indices(obs) : obs[i].showerId = showerId }

\* session i beats session j: more meteors, or as many and a higher rating
Beats(obs, i, j) ==
    \/ obs[i].meteorsCount > obs[j].meteorsCount
    \/ obs[i].meteorsCount = obs[j].meteorsCount /\ obs[i].rating > obs[j].rating

\* the first session of the shower that none of its sessions beats
BestIndex(obs, showerId) ==
    CHOOSE i \in SessionsOf(obs, showerId) :
        /\ \A j \in SessionsOf(obs, showerId) : ~Beats(obs, j, i)
        /\ \A j \in SessionsOf(obs, showerId) :
              (\A k \in SessionsOf(obs, showerId) : ~Beats(obs, k, j)) => i <= j

\* C9: for every showerId in the list, bestSession is the shower's session
\* with the highest meteor count, among those the highest rating, among
\* those the first in the order of the list handed over.
C9_BestSessionIsFirstMaximum ==
    (Returned /\ Len(given) > 0) =>
        \A showerId \in { given[i].showerId : i \in Indices(given) } :
            /\ showerId \in DOMAIN result.val.showerStats
            /\ result.val.showerStats[showerId].bestSession
                   = Session(given[BestIndex(given, showerId)])

\* meteor counts 10 and 25 with ratings 5 and 3, then a full tie with the
\* winner on another date: the first 25-meteor session stays selected
C9_Witness ==
    /\ Returned
    /\ Len(given) = 3
    /\ \A i \in 1..3 : given[i].showerId = "perseids"
    /\ given[1].meteorsCount = 10 /\ given[1].rating = 5
    /\ given[2].meteorsCount = 25 /\ given[2].rating = 3 /\ given[2].date = 0
    /\ given[3].meteorsCount = 25 /\ given[3].rating = 3 /\ given[3].date = 4
    /\ result.val.showerStats["perseids"].bestSession
           = [date |-> 0, meteors |-> 25, rating |-> 3]

\* C10: for a non-empty list, favoriteShower is a showerId of the list with
\* the largest number of observations, and among several such the one whose
\* first observation comes earliest in the list handed over; for every
\* showerId value, the empty string included.
C10_FavoriteIsFirstMostObserved ==
    (Returned /\ Len(given) > 0) =>
        LET ids      == { given[i].showerId : i \in Indices(given) }
            count(s) == Cardinality(SessionsOf(given, s))
            first(s) == CHOOSE i \in SessionsOf(given, s) :
                            \A j \in SessionsOf(given, s) : i <= j
            fav      == result.val.favoriteShower
        IN  /\ fav \in ids
            /\ \A s \in ids : count(s) <= count(fav)
            /\ \A s \in ids : count(s) = count(fav) => first(fav) <= first(s)

\* the sum of f over the positions I
RECURSIVE SumOf(_, _)
SumOf(f, I) ==
    IF I = {} THEN 0
    ELSE LET i == CHOOSE j \in I : TRUE IN f[i] + SumOf(f, I \ { i })

\* the minutes of a session, one that ends before it starts having run past
\* midnight
ClaimedDuration(o) ==
    IF o.endTime < o.startTime THEN o.endTime + 24 * 60 - o.startTime
    ELSE o.endTime - o.startTime

\* C11: a session whose endTime is before its startTime counts with the
\* duration endTime + 24 h - startTime into totalHours and longestSession, so
\* that every duration, totalHours and longestSession are at least 0.
C11_SessionsPastMidnightCount ==
    (Returned /\ Len(given) > 0) =>
        LET minutes == [i \in Indices(given) |-> ClaimedDuration(given[i])]
        IN  /\ result.val.totalHours.minutes = SumOf(minutes, Indices(given))
            /\ result.val.longestSession \in Range(minutes)
            /\ \A i \in Indices(given) : minutes[i] <= result.val.longestSession
            /\ result.val.totalHours.minutes >= 0
            /\ result.val.longestSession >= 0

\* C12: monthlyStats gives for each month and year the number of observations
\* whose calendar date lies in that month, whatever the device's time zone,
\* and has no label with the count 0.
C12_MonthlyStatsCountCalendarMonths ==
    (Returned /\ Len(given) > 0) =>
        LET months == { MonthName(given[i].date) : i \in Indices(given) }
        IN  /\ DOMAIN result.val.monthlyStats = months
            /\ \A month \in months :
                  result.val.monthlyStats[month] =
                      Cardinality({ i \in Indices(given) :
                                      MonthName(given[i].date) = month })

\* mean is the quotient sum / count
IsMean(mean, sum, count) == mean.den > 0 /\ mean.num * count = sum * mean.den

\* C13: totalObservations is the length of the list, totalMeteors the sum of
\* the meteor counts, averageRating the mean of the ratings; each shower's
\* observations, totalMeteors and averageRating are the same over the
\* observations of that shower.
C13_TotalsAreSumsAndMeans ==
    (Returned /\ Len(given) > 0) =>
        LET meteors == [i \in Indices(given) |-> given[i].meteorsCount]
            ratings == [i \in Indices(given) |-> given[i].rating]
            stats   == result.val
        IN  /\ stats.totalObservations = Len(given)
            /\ stats.totalMeteors = SumOf(meteors, Indices(given))
            /\ IsMean(stats.averageRating, SumOf(ratings, Indices(given)), Len(given))
            /\ DOMAIN stats.showerStats = { given[i].showerId : i \in Indices(given) }
            /\ \A showerId \in DOMAIN stats.showerStats :
                  LET sessions == SessionsOf(given, showerId)
                      shower   == stats.showerStats[showerId]
                  IN  /\ shower.observations = Cardinality(sessions)
                      /\ shower.totalMeteors = SumOf(meteors, sessions)
                      /\ IsMean(shower.averageRating, SumOf(ratings, sessions),
                                Cardinality(sessions))

\* two showers with different ratings and meteor counts
C13_Witness ==
    /\ Returned
    /\ Len(given) = 3
    /\ given[1].showerId = "perseids" /\ given[1].rating = 3 /\ given[1].meteorsCount = 10
    /\ given[2].showerId = "" /\ given[2].rating = 5 /\ given[2].meteorsCount = 25
    /\ given[3].showerId = "perseids" /\ given[3].rating = 5 /\ given[3].meteorsCount = 25
    /\ result.val.totalMeteors = 60
    /\ result.val.averageRating = [num |-> 13, den |-> 3]
    /\ result.val.showerStats["perseids"].averageRating = [num |-> 8, den |-> 2]
    /\ result.val.showerStats["perseids"].totalMeteors = 35

\* C14: a second calculateStats on the same list object, at the same time,
\* returns what the first returned, in every field, favoriteShower and every
\* bestSession included when there are ties.
C14_SecondCallReturnsTheSame ==
    (pc = "again" /\ again.has) => again.val = result.val

\* C15: calculateStats has no side effect: the list handed over holds the same
\* records in the same order after the call, and nothing is written to the
\* store.
C15_CalculateStatsLeavesListAlone ==
    Returned =>
        /\ input = given
        /\ obsItem = NoItem(<< >>)
        /\ statsItem = NoItem(<< >>)

\* no two showers with as many observations, no two sessions of a shower with
\* the same meteor count and rating
NoTies(obs) ==
    /\ \A i, j \in Indices(obs) :
          obs[i].showerId # obs[j].showerId =>
              Cardinality(SessionsOf(obs, obs[i].showerId))
                  # Cardinality(SessionsOf(obs, obs[j].showerId))
    /\ \A i, j \in Indices(obs) :
          (i # j /\ obs[i].showerId = obs[j].showerId) =>
              ~(/\ obs[i].meteorsCount = obs[j].meteorsCount
                /\ obs[i].rating = obs[j].rating)

\* the list in every order
OrdersOf(obs) ==
    { [i \in Indices(obs) |-> obs[p[i]]] : p \in Permutations(Indices(obs)) }

\* C16: for a list without ties, calculateStats of every permutation returns
\* the same totalObservations, totalMeteors, totalHours, averageRating,
\* monthlyStats, showerStats, favoriteShower, longestSession and longestStreak.
C16_OrderDoesNotMatterWithoutTies ==
    (Returned /\ NoTies(given)) =>
        \A other \in OrdersOf(given) :
            LET stats == calculateStats(other, now, tz)
            IN  /\ stats.totalObservations = result.val.totalObservations
                /\ stats.totalMeteors = result.val.totalMeteors
                /\ stats.totalHours = result.val.totalHours
                /\ stats.averageRating = result.val.averageRating
                /\ stats.monthlyStats = result.val.monthlyStats
                /\ stats.showerStats = result.val.showerStats
                /\ stats.favoriteShower = result.val.favoriteShower
                /\ stats.longestSession = result.val.longestSession
                /\ stats.longestStreak = result.val.longestStreak


----------------------------------------------------------------------------
(* What the service is claimed to do, over the call that last completed *)

StoredList == getObservations(obsItem, FALSE)
StoredStats == getStats(statsItem, FALSE)
ListBefore == getObservations(last.before, FALSE)

Succeeded(op) == last.op = op /\ ~last.threw

IdsOf(observations) == { observations[i].id : i \in Indices(observations) }

\* C1: whenever saveObservation or deleteObservation has returned without
\* throwing, the persisted stats equal calculateStats of the persisted list,
\* also when the write of the stats record failed.
C1_StatsAreRecomputedList ==
    (Succeeded("save") \/ Succeeded("delete")) =>
        StoredStats = calculateStats(StoredList, now, tz)

\* C2: an error of the store during the list read or the list write of a
\* save or delete is propagated to the caller, and the persisted list is what
\* it was before the call.
C2_ListErrorsPropagate ==
    (last.op \in { "save", "delete" } /\ last.listError) =>
        /\ last.threw
        /\ obsItem = last.before

\* C3: saveObservation(o) is an upsert by id: an unseen id appends o and the
\* list grows by one; a stored id is replaced in place, length and order
\* kept; records with another id are unchanged.
C3_SaveIsUpsert ==
    Succeeded("save") =>
        IF last.id \notin IdsOf(ListBefore)
        THEN /\ Len(StoredList) = Len(ListBefore) + 1
             /\ StoredList[Len(StoredList)] = last.obs
             /\ SubSeq(StoredList, 1, Len(ListBefore)) = ListBefore
        ELSE /\ Len(StoredList) = Len(ListBefore)
             /\ \A i \in Indices(ListBefore) :
                   /\ StoredList[i].id = ListBefore[i].id
                   /\ ListBefore[i].id # last.id => StoredList[i] = ListBefore[i]
                   /\ ListBefore[i].id = last.id =>
                         [StoredList[i] EXCEPT !.updatedAt = 0]
                             = [last.obs EXCEPT !.updatedAt = 0]

\* C4: after saveObservation(o) succeeds, getObservations returns a record
\* with o.id equal to o in every field but updatedAt, whose updatedAt is the
\* time of the save, on insert and on replace.
C4_SaveRoundTrip ==
    Succeeded("save") =>
        \E i \in Indices(StoredList) :
            /\ StoredList[i].id = last.id
            /\ [StoredList[i] EXCEPT !.updatedAt = 0]
                   = [last.obs EXCEPT !.updatedAt = 0]
            /\ StoredList[i].updatedAt = now
            /\ StoredList[i].updatedAt >= last.obs.updatedAt

\* C5: after deleteObservation(id) succeeds no stored record has the id, the
\* records with another id are stored unchanged in the same order, and
\* deleting an id that is not stored leaves the list unchanged.
C5_DeleteRemovesOnlyId ==
    Succeeded("delete") =>
        /\ last.id \notin IdsOf(StoredList)
        /\ StoredList = SelectSeq(ListBefore, LAMBDA o : o.id # last.id)
        /\ last.id \notin IdsOf(ListBefore) => StoredList = ListBefore

\* C6: calculateStats of the empty list is the zero record, and after the
\* last stored observation is deleted the persisted stats are that record.
C6_EmptyListGivesZeroStats ==
    /\ calculateStats(<< >>, now, tz)
           = [ totalObservations |-> 0, totalMeteors |-> 0, totalHours |-> Double(0, 0),
               averageRating |-> [num |-> 0, den |-> 1], favoriteShower |-> "",
               longestSession |-> 0, currentStreak |-> 0, longestStreak |-> 0,
               monthlyStats |-> << >>, showerStats |-> << >> ]
    /\ (Succeeded("delete") /\ Len(ListBefore) > 0 /\ Len(StoredList) = 0) =>
           StoredStats = calculateStats(<< >>, now, tz)

\* C17: failures of the read path never propagate: when the store raises an
\* error or holds text that does not parse, getObservations returns [] and
\* getStats the zero stats; neither throws or modifies the store; getStats
\* returns the zero stats when no stats were ever written.
C17_ReadsNeverFail ==
    /\ last.op = "getObservations" =>
          /\ ~last.threw
          /\ obsItem = last.before /\ statsItem = last.statsBefore
          /\ (last.listError \/ ~obsItem.has \/ ~obsItem.parses) =>
                 result.val = << >>
    /\ last.op = "getStats" =>
          /\ ~last.threw
          /\ obsItem = last.before /\ statsItem = last.statsBefore
          /\ (last.listError \/ ~statsItem.has \/ ~statsItem.parses) =>
                 result.val
                     = [ totalObservations |-> 0, totalMeteors |-> 0,
                         totalHours |-> Double(0, 0),
                         averageRating |-> [num |-> 0, den |-> 1],
                         favoriteShower |-> "", longestSession |-> 0,
                         currentStreak |-> 0, longestStreak |-> 0,
                         monthlyStats |-> << >>, showerStats |-> << >> ]

\* getStats while the store raises an error and holds the stats of two
\* observations
C17_Witness ==
    /\ last.op = "getStats"
    /\ last.listError
    /\ statsItem.has /\ statsItem.parses
    /\ ParseStats(statsItem.val).totalObservations = 2
    /\ result.val.totalObservations = 0

\* a record that is not well formed: no shower, or a rating that is not 1..5
Malformed(o) == o.showerId = "" \/ o.rating \notin 1..5

\* C18: a malformed observation (rating outside 1..5, showerId missing or
\* empty) is rejected at the write boundary: the save fails and the stored
\* list is unchanged, so no stored list holds such a record.
C18_MalformedIsRejected ==
    /\ (last.op = "save" /\ Malformed(last.obs)) =>
           last.threw /\ obsItem = last.before
    /\ \A o \in Range(StoredList) : ~Malformed(o)

\* C19: through every sequence of saves of an id, the first insert and the
\* edits after it, the stored record keeps the createdAt of the first insert,
\* and every save stamps updatedAt anew.
C19_CreatedAtIsKept ==
    /\ \A o \in Range(StoredList) : o.createdAt = firstSaved[o.id]
    /\ Succeeded("save") =>
          \E i \in Indices(StoredList) :
              /\ StoredList[i].id = last.id
              /\ StoredList[i].updatedAt = now

\* a record inserted at tick 0 and edited at tick 1
C19_Witness ==
    /\ Succeeded("save")
    /\ last.id \in IdsOf(ListBefore)
    /\ now = 1
    /\ firstSaved[last.id] = 0
    /\ \E i \in Indices(StoredList) :
          /\ StoredList[i].id = last.id
          /\ StoredList[i].createdAt = 0
          /\ StoredList[i].updatedAt = 1

\* no call is under way, and at least one has returned
AllReturned ==
    /\ \E c \in DOMAIN calls : calls[c].at = "done"
    /\ \A c \in DOMAIN calls : calls[c].at \in { "idle", "done" }

\* the calls that have returned and whose id no other call was about
Unrivalled(op) ==
    { c \in DOMAIN calls :
        /\ calls[c].at = "done" /\ calls[c].op = op
        /\ \A d \in DOMAIN calls \ { c } : calls[d].id # calls[c].id }

\* C20: writes to the list are serialized: when several save and delete calls
\* are started, two saves of new ids before either completes for one, and
\* all have returned, the stored list reflects every one of them and the
\* stored stats are those of the final list.
C20_OverlappingWritesAllLand ==
    AllReturned =>
        /\ \A c \in Unrivalled("save") : calls[c].id \in IdsOf(StoredList)
        /\ \A c \in Unrivalled("delete") : calls[c].id \notin IdsOf(StoredList)
        /\ StoredStats = calculateStats(StoredList, now, tz)

\* the calls of scheduleShowerNotifications that have returned without
\* throwing, notifications being enabled
Scheduled ==
    { c \in DOMAIN calls :
        /\ calls[c].op = "schedule" /\ calls[c].at = "done"
        /\ calls[c].settings.enabled /\ ~calls[c].threw }

\* C21: scheduleShowerNotifications schedules only for catalog showers whose
\* zhr is at least settings.minimumZHR, a shower whose zhr equals it
\* included and one whose zhr is one below it never; every notification it
\* schedules has a trigger strictly later than the time of scheduling and
\* belongs to a shower whose peak date has not passed.
C21_OnlyBrightUpcomingShowers ==
    /\ \A n \in scheduled :
           LET shower == getMeteorShowerById(n.showerId)
           IN  /\ shower.zhr >= n.settings.minimumZHR
               /\ n.trigger > Minutes(now)
               /\ PeakDate(shower) > Minutes(now)
    /\ \A c \in Scheduled : \A shower \in Range(METEOR_SHOWERS_2025) :
           LET settings == calls[c].settings
           IN  /\ shower.zhr >= settings.minimumZHR
               /\ settings.hoursBeforePeak > 0
               /\ PeakDate(shower) - settings.hoursBeforePeak * 60
                      > Minutes(now)
               => \E n \in scheduled :
                      n.showerId = shower.id /\ n.type = "peak_reminder"

\* a call has returned having scheduled for a shower whose zhr equals the
\* minimum and having left out the one shower below it
C21_Witness ==
    /\ Scheduled # {}
    /\ \E n \in scheduled :
           getMeteorShowerById(n.showerId).zhr = n.settings.minimumZHR
    /\ \E n \in scheduled, m \in scheduled :
           n.type = "advance_reminder" /\ m.type = "peak_now"

\* C22: isShowerVisible is false exactly when the shower is northern and
\* the latitude is below 0, or southern and the latitude above 0: true for
\* a shower marked both at every latitude and for every shower at latitude
\* 0, whatever the date and the shower's active window.
C22_VisibleByHemisphere ==
    sky.fn = "isShowerVisible" =>
        /\ sky.result = FALSE <=>
                \/ sky.shower.hemisphere = "northern" /\ sky.latitude < 0
                \/ sky.shower.hemisphere = "southern" /\ sky.latitude > 0
        /\ sky.shower.hemisphere = "both" => sky.result = TRUE
        /\ sky.latitude = 0 => sky.result = TRUE

\* a southern shower asked about just north of the equator
C22_Witness ==
    /\ sky.fn = "isShowerVisible"
    /\ sky.shower.hemisphere = "southern"
    /\ sky.latitude = 1
    /\ sky.result = FALSE

\* C23: in calculateViewingConditions light pollution is low iff
\* |latitude| > 60, high iff |latitude| < 30 and medium otherwise, exactly
\* 30 and 60 included, with multipliers 1.0, 0.6 and 0.8; the moonlight
\* factor is 1 - (illumination / 100) * k with k 0.8, 0.5, 0.2 for high,
\* medium, low sensitivity; the visibility lies between 0 and 1.
C23_ViewingConditions ==
    sky.fn = "calculateViewingConditions" =>
        LET absLat     == IF sky.latitude < 0 THEN -sky.latitude
                          ELSE sky.latitude
            impact     == sky.result.lightPollutionImpact
            multiplier == CASE impact = "low" -> 10
                            [] impact = "high" -> 6
                            [] impact = "medium" -> 8
            k          == CASE sky.shower.moonPhaseImpact = "high" -> 8
                            [] sky.shower.moonPhaseImpact = "medium" -> 5
                            [] sky.shower.moonPhaseImpact = "low" -> 2
        IN  /\ impact = "low" <=> absLat > 600
            /\ impact = "high" <=> absLat < 300
            /\ impact = "medium" <=> absLat >= 300 /\ absLat <= 600
            /\ sky.result.visibility
                   = (1000 - sky.moonIllumination * k) * multiplier
            /\ sky.result.visibility >= 0
            /\ sky.result.visibility <= 10000

\* at exactly 60 degrees south under a full moon, for a shower that the
\* moon affects much
C23_Witness ==
    /\ sky.fn = "calculateViewingConditions"
    /\ sky.latitude = -600
    /\ sky.moonIllumination = 100
    /\ sky.shower.moonPhaseImpact = "high"
    /\ sky.result.lightPollutionImpact = "medium"
    /\ sky.result.visibility = 1600

\* the Clear All handler has run and nothing threw
Cleared == last.op = "clearAllData" /\ ~last.threw

\* C24: after clearAllData succeeds all of the user's saved data is gone:
\* getUserLocation returns null, getNotificationSettings the defaults,
\* isOnboardingCompleted false, getFavoriteShowers [], getUserEngagement the
\* default record, getThemePreference auto, and getObservations returns []
\* and getStats the zero record.
C24_ClearAllDataClearsEverything ==
    Cleared =>
        /\ ~getUserLocation(prefs["@radiant_user_location"], FALSE).has
        /\ getNotificationSettings(prefs["@radiant_notification_settings"],
                                   FALSE) = DefaultSettings
        /\ ~isOnboardingCompleted(prefs["@radiant_onboarding_completed"],
                                  FALSE)
        /\ getFavoriteShowers(prefs["@radiant_favorite_showers"], FALSE)
               = << >>
        /\ getUserEngagement(prefs["@radiant_user_engagement"], FALSE, now)
               = DefaultEngagement(now)
        /\ getThemePreference(prefs["@radiant_theme_preference"], FALSE)
               = "auto"
        /\ getObservations(obsItem, FALSE) = << >>
        /\ getStats(statsItem, FALSE) = getEmptyStats

\* C25: starting from an empty store, after any sequence and any
\* interleaving of saveObservation and deleteObservation calls, no two
\* stored records share an id.
C25_StoredIdsAreUnique ==
    \A i \in DOMAIN StoredList, j \in DOMAIN StoredList :
        i # j => StoredList[i].id # StoredList[j].id

\* two overlapping saves of one id have both returned, next to a record of
\* another id
C25_Witness ==
    /\ \E c \in DOMAIN calls, d \in DOMAIN calls :
           /\ c # d
           /\ calls[c].at = "done" /\ calls[d].at = "done"
           /\ calls[c].op = "save" /\ calls[d].op = "save"
           /\ calls[c].id = calls[d].id
           /\ calls[c].id \in IdsOf(StoredList)
    /\ Len(StoredList) = 2

\* C26: the result of calculateStats is consistent with itself: the
\* observations of the showerStats entries add up to totalObservations, so
\* do the counts of monthlyStats, the totalMeteors of the entries add up to
\* totalMeteors, and the keys of showerStats are the showerIds of the list.
C26_StatsAddUp ==
    Returned =>
        LET stats   == result.val
            showers == DOMAIN stats.showerStats
            months  == DOMAIN stats.monthlyStats
        IN  /\ SumOf([s \in showers |-> stats.showerStats[s].observations],
                     showers) = stats.totalObservations
            /\ SumOf(stats.monthlyStats, months) = stats.totalObservations
            /\ SumOf([s \in showers |-> stats.showerStats[s].totalMeteors],
                     showers) = stats.totalMeteors
            /\ showers = { given[i].showerId : i \in Indices(given) }

\* three observations of two showers, two of them in one month
C26_Witness ==
    /\ Returned
    /\ Len(given) = 3
    /\ Cardinality(DOMAIN result.val.showerStats) = 2
    /\ \E month \in DOMAIN result.val.monthlyStats :
           result.val.monthlyStats[month] >= 2

\* C27: 0 <= currentStreak <= longestStreak <= totalObservations, and
\* longestStreak >= 1 whenever the list is not empty.
C27_StreaksAreOrdered ==
    Returned =>
        LET stats == result.val
        IN  /\ 0 <= stats.currentStreak
            /\ stats.currentStreak <= stats.longestStreak
            /\ stats.longestStreak <= stats.totalObservations
            /\ Len(given) > 0 => stats.longestStreak >= 1

\* a current streak shorter than the longest, which is shorter than the list
C27_Witness ==
    /\ Returned
    /\ 0 < result.val.currentStreak
    /\ result.val.currentStreak < result.val.longestStreak
    /\ result.val.longestStreak < result.val.totalObservations

\* the favourites as getFavoriteShowers returns them
Favorites == getFavoriteShowers(prefs["@radiant_favorite_showers"], FALSE)

\* where an id stands in a list that holds it
Position(ids, id) == CHOOSE i \in DOMAIN ids : ids[i] = id

\* C28: after any sequence of awaited addFavoriteShower and
\* removeFavoriteShower calls the stored favourites hold no id twice;
\* adding an id already present changes nothing; after
\* removeFavoriteShower(id) isFavoriteShower(id) is false and all other ids
\* keep their membership and their relative order.
C28_FavoritesAreASet ==
    LET others == Range(last.before) \ { last.id }
    IN  /\ \A i \in DOMAIN Favorites, j \in DOMAIN Favorites :
               i # j => Favorites[i] # Favorites[j]
        /\ ( /\ last.op = "addFavoriteShower" /\ ~last.threw
             /\ Includes(last.before, last.id) )
               => Favorites = last.before
        /\ (last.op = "removeFavoriteShower" /\ ~last.threw)
               => /\ ~isFavoriteShower(prefs["@radiant_favorite_showers"],
                                       last.id, FALSE)
                  /\ Range(Favorites) = others
                  /\ \A a \in others, b \in others :
                         Position(last.before, a) < Position(last.before, b)
                             => Position(Favorites, a) < Position(Favorites, b)

\* the engagement record as getUserEngagement returns it
Engagement ==
    getUserEngagement(prefs["@radiant_user_engagement"], FALSE, now)

\* the calls made of one function
CallsOf(op) == { c \in DOMAIN calls : calls[c].op = op }

\* C29: engagement updates are not lost: after any interleaving of
\* recordAppOpen, recordNotificationInteraction, recordShowerViewed and
\* updateUserEngagement calls that all complete without a storage error,
\* appOpens is the number of recordAppOpen calls, notificationInteractions
\* the number of recordNotificationInteraction calls, and showersViewed
\* holds every id passed to recordShowerViewed exactly once.
C29_EngagementUpdatesAreKept ==
    AllReturned =>
        /\ Engagement.appOpens = Cardinality(CallsOf("recordAppOpen"))
        /\ Engagement.notificationInteractions
               = Cardinality(CallsOf("recordNotificationInteraction"))
        /\ \A c \in CallsOf("recordShowerViewed") :
               Cardinality({ i \in DOMAIN Engagement.showersViewed :
                               Engagement.showersViewed[i] = calls[c].id })
                   = 1

\* call c of scheduleShowerNotifications returns in this step
Returns(c) ==
    /\ calls[c].at # "done"
    /\ calls'[c].at = "done"
    /\ calls'[c].op = "schedule"

\* C30: scheduleShowerNotifications replaces, it does not accumulate: with
\* enabled true everything scheduled before is cancelled before the
\* permission check and before anything new is scheduled, so when a call
\* returns successfully the scheduled set holds only notifications made
\* from that call's settings, at most three per shower, and when it fails
\* for want of permission the set is empty; with enabled false the call
\* cancels nothing and schedules nothing.
C30_ScheduleReplaces ==
    [][ \A c \in DOMAIN calls :
          Returns(c) =>
              IF ~calls'[c].settings.enabled THEN scheduled' = scheduled
              ELSE IF calls'[c].threw THEN scheduled' = {}
              ELSE /\ \A n \in scheduled' :
                         n.call = c /\ n.settings = calls'[c].settings
                   /\ \A shower \in Range(METEOR_SHOWERS_2025) :
                         Cardinality({ n \in scheduled' :
                                         n.showerId = shower.id }) <= 3
      ]_vars

====
